---- MODULE Spec2Model ----
(***************************************************************************)
(* Model of the oli outline editor's data package (internal/data): the    *)
(* intrusive doubly-linked item tree, the workspace's cursor and zoom      *)
(* root, the collapse-aware row traversal and the XML persistence codec,   *)
(* together with the controller commands of internal/model/outline.go.     *)
(*                                                                         *)
(* Items are heap objects; a pointer is an item number and Nil is the nil  *)
(* pointer.  Every method of Item is an operator over a heap record (the   *)
(* pointer and flag fields of all items) that performs the method's        *)
(* assignments in source order; a nil dereference ends the operator with   *)
(* ok = FALSE and the heap as the assignments before it left it.           *)
(***************************************************************************)
EXTENDS Integers, Sequences, FiniteSets, TLC

\* ---------------------------------------------------------------- bounds
\* Size of the item pool: the number of items a run can create.
MaxItems == 5
\* Number of items the list-level, view-level and controller specifications
\* create.
MaxTreeItems == 4
\* Number of items the full library-level specification SpecApi creates.
MaxApiItems == 3
\* Number of items the editing specification SpecEdit creates.
MaxEditItems == 3
\* Number of items that carry a status, and number that carry a title, in
\* SpecEdit.
MaxMarked == 1

Nil == 0
Items == 1 .. MaxItems
Ptr == Items \cup {Nil}

\* Number of items the persistence specification SpecDisk creates.
MaxDiskItems == 2
\* Latest second the clock reaches.
MaxClock == 2
Times == 0 .. MaxClock

\* internal/data/status.go:22  the Status enumeration (iota)
StatusNone == 0
StatusTodo == 1
StatusDone == 2
StatusCancelled == 3
StatusWaiting == 4
StatusScheduled == 5
Statuses == StatusNone .. StatusScheduled

\* internal/data/workspace.go:29
storageVersion == 2

\* A title is a sequence of characters.
EmptyTitle == <<>>

\* No file at a path.
NoFile == [kind |-> "none"]

\* The item a workspace is created with (w.root of NewWorkspace).
Home == 1

VARIABLES
    alloc,      \* items created so far by Workspace.NewItem
    parent,     \* Item.parent
    head,       \* Item.head
    tail,       \* Item.tail
    prev,       \* Item.prev
    next,       \* Item.next
    collapsed,  \* Item.collapsed
    root,       \* Workspace.root   (the zoom root)
    cursor,     \* Workspace.cursor
    panicked,   \* a runtime panic (nil dereference) has ended the program
    status,     \* Item.status
    title,      \* Item.title
    canon,      \* content of the file at the canonical path workspace.xml
    baks,       \* content of the backup files, by the time in their name
    now,        \* the clock, in seconds (time.Now().Unix())
    access,     \* the workspace directory can be searched and written
    pc,         \* where the process stands: exited, running, or inside Save
    prior,      \* history: content of the canonical path when Save began
    ret         \* history: what the last finished Save returned

linkVars == <<parent, head, tail, prev, next, collapsed>>
attrVars == <<status, title>>
diskVars == <<canon, baks, now, access>>
procVars == <<pc, prior, ret>>

vars == <<alloc, parent, head, tail, prev, next, collapsed, root, cursor,
          panicked, status, title, canon, baks, now, access, pc, prior,
          ret>>

\* ------------------------------------------------------------------ heap
\* The link and flag fields of all items, bundled so that a method can be
\* written as a sequence of assignments.
Heap ==
    [parent |-> parent, head |-> head, tail |-> tail, prev |-> prev,
     next |-> next, collapsed |-> collapsed]

SetHeap(hp) ==
    /\ parent' = hp.parent
    /\ head' = hp.head
    /\ tail' = hp.tail
    /\ prev' = hp.prev
    /\ next' = hp.next
    /\ collapsed' = hp.collapsed

Ok(hp) == [h |-> hp, ok |-> TRUE]
Panic(hp) == [h |-> hp, ok |-> FALSE]

\* Mutant of Detach: the parent's tail is not repaired when the last child
\* leaves.
DetachKeepsTail(hp, i) ==
    LET h1 == IF hp.prev[i] # Nil
                THEN [hp EXCEPT !.next[hp.prev[i]] = hp.next[i]]
                ELSE IF hp.parent[i] # Nil
                       THEN [hp EXCEPT !.head[hp.parent[i]] = hp.next[i]]
                       ELSE hp
        h2 == IF h1.next[i] # Nil
                THEN [h1 EXCEPT !.prev[h1.next[i]] = h1.prev[i]]
                ELSE h1
    IN  [h2 EXCEPT !.parent[i] = Nil, !.prev[i] = Nil, !.next[i] = Nil]

\* Mutant of Detach: the item keeps its own prev and next.
DetachKeepsOwnLinks(hp, i) ==
    LET h1 == IF hp.prev[i] # Nil
                THEN [hp EXCEPT !.next[hp.prev[i]] = hp.next[i]]
                ELSE IF hp.parent[i] # Nil
                       THEN [hp EXCEPT !.head[hp.parent[i]] = hp.next[i]]
                       ELSE hp
        h2 == IF h1.next[i] # Nil
                THEN [h1 EXCEPT !.prev[h1.next[i]] = h1.prev[i]]
                ELSE IF h1.parent[i] # Nil
                       THEN [h1 EXCEPT !.tail[h1.parent[i]] = h1.prev[i]]
                       ELSE h1
    IN  [h2 EXCEPT !.parent[i] = Nil]

\* Mutant of Detach: the item's children are let go as well.
DetachDropsChildren(hp, i) ==
    LET h1 == IF hp.prev[i] # Nil
                THEN [hp EXCEPT !.next[hp.prev[i]] = hp.next[i]]
                ELSE IF hp.parent[i] # Nil
                       THEN [hp EXCEPT !.head[hp.parent[i]] = hp.next[i]]
                       ELSE hp
        h2 == IF h1.next[i] # Nil
                THEN [h1 EXCEPT !.prev[h1.next[i]] = h1.prev[i]]
                ELSE IF h1.parent[i] # Nil
                       THEN [h1 EXCEPT !.tail[h1.parent[i]] = h1.prev[i]]
                       ELSE h1
    IN  [h2 EXCEPT !.parent[i] = Nil, !.prev[i] = Nil, !.next[i] = Nil,
                   !.head[i] = Nil, !.tail[i] = Nil]

\* internal/data/item.go:54  func (i *Item) Detach()
Detach(hp, i) ==
    LET h1 == IF hp.prev[i] # Nil
                THEN [hp EXCEPT !.next[hp.prev[i]] = hp.next[i]]
                ELSE IF hp.parent[i] # Nil
                       THEN [hp EXCEPT !.head[hp.parent[i]] = hp.next[i]]
                       ELSE hp
        h2 == IF h1.next[i] # Nil
                THEN [h1 EXCEPT !.prev[h1.next[i]] = h1.prev[i]]
                ELSE IF h1.parent[i] # Nil
                       THEN [h1 EXCEPT !.tail[h1.parent[i]] = h1.prev[i]]
                       ELSE h1
    IN  [h2 EXCEPT !.parent[i] = Nil, !.prev[i] = Nil, !.next[i] = Nil]

\* Mutant of MoveAbove: the item is not detached from its old place first.
MoveAboveNoDetach(hp, i, target) ==
    IF target = Nil THEN Panic(hp)
    ELSE
    LET h2 == [hp EXCEPT !.parent[i] = hp.parent[target]]
        h3 == [h2 EXCEPT !.prev[i] = h2.prev[target]]
        h4 == [h3 EXCEPT !.next[i] = target]
    IN  IF h4.prev[target] # Nil
          THEN LET h5 == [h4 EXCEPT !.next[h4.prev[target]] = i]
               IN  Ok([h5 EXCEPT !.prev[target] = i])
          ELSE IF h4.parent[target] = Nil
                 THEN Panic(h4)
                 ELSE LET h5 == [h4 EXCEPT !.head[h4.parent[target]] = i]
                      IN  Ok([h5 EXCEPT !.prev[target] = i])

\* internal/data/item.go:73  func (i *Item) MoveAbove(target *Item)
\* target may be nil (Promote passes i.parent): the first read of
\* target.parent then panics, after i.Detach() has run.
MoveAbove(hp, i, target) ==
    LET h1 == Detach(hp, i)
    IN  IF target = Nil THEN Panic(h1)
        ELSE
        LET h2 == [h1 EXCEPT !.parent[i] = h1.parent[target]]
            h3 == [h2 EXCEPT !.prev[i] = h2.prev[target]]
            h4 == [h3 EXCEPT !.next[i] = target]
        IN  IF h4.prev[target] # Nil
              THEN LET h5 == [h4 EXCEPT !.next[h4.prev[target]] = i]
                   IN  Ok([h5 EXCEPT !.prev[target] = i])
              ELSE IF h4.parent[target] = Nil
                     THEN Panic(h4)
                     ELSE LET h5 == [h4 EXCEPT !.head[h4.parent[target]] = i]
                          IN  Ok([h5 EXCEPT !.prev[target] = i])

\* internal/data/item.go:90  func (i *Item) MoveBelow(target *Item)
MoveBelow(hp, i, target) ==
    LET h1 == Detach(hp, i)
    IN  IF target = Nil THEN Panic(h1)
        ELSE
        LET h2 == [h1 EXCEPT !.parent[i] = h1.parent[target]]
            h3 == [h2 EXCEPT !.prev[i] = target]
            h4 == [h3 EXCEPT !.next[i] = h3.next[target]]
        IN  IF h4.next[target] # Nil
              THEN LET h5 == [h4 EXCEPT !.prev[h4.next[target]] = i]
                   IN  Ok([h5 EXCEPT !.next[target] = i])
              ELSE IF h4.parent[target] = Nil
                     THEN Panic(h4)
                     ELSE LET h5 == [h4 EXCEPT !.tail[h4.parent[target]] = i]
                          IN  Ok([h5 EXCEPT !.next[target] = i])

\* internal/data/item.go:108  func (i *Item) Prepend(item *Item)
Prepend(hp, i, item) ==
    IF hp.head[i] # Nil
      THEN MoveAbove(hp, item, hp.head[i])
      ELSE LET h1 == Detach(hp, item)
               h2 == [h1 EXCEPT !.parent[item] = i]
               h3 == [h2 EXCEPT !.head[i] = item]
           IN  Ok([h3 EXCEPT !.tail[i] = item])

\* Mutant of Append: the item is put before the last child.
AppendBeforeTail(hp, i, item) ==
    IF hp.tail[i] # Nil
      THEN MoveAbove(hp, item, hp.tail[i])
      ELSE LET h1 == Detach(hp, item)
               h2 == [h1 EXCEPT !.parent[item] = i]
               h3 == [h2 EXCEPT !.head[i] = item]
           IN  Ok([h3 EXCEPT !.tail[i] = item])

\* internal/data/item.go:123  func (i *Item) Append(item *Item)
ItemAppend(hp, i, item) ==
    IF hp.tail[i] # Nil
      THEN MoveBelow(hp, item, hp.tail[i])
      ELSE LET h1 == Detach(hp, item)
               h2 == [h1 EXCEPT !.parent[item] = i]
               h3 == [h2 EXCEPT !.head[i] = item]
           IN  Ok([h3 EXCEPT !.tail[i] = item])

\* Mutant of MoveUp: the item is put back below its previous sibling.
MoveUpStays(hp, i) ==
    IF hp.prev[i] # Nil THEN MoveBelow(hp, i, hp.prev[i]) ELSE Ok(hp)

\* internal/data/item.go:138  func (i *Item) MoveUp()
MoveUp(hp, i) ==
    IF hp.prev[i] # Nil THEN MoveAbove(hp, i, hp.prev[i]) ELSE Ok(hp)

\* internal/data/item.go:146  func (i *Item) MoveDown()
MoveDown(hp, i) ==
    IF hp.next[i] # Nil THEN MoveBelow(hp, i, hp.next[i]) ELSE Ok(hp)

\* Mutant of Demote: the previous sibling's collapsed flag is left as it is.
DemoteKeepsFold(hp, i) ==
    LET p == hp.prev[i]
    IN  IF p = Nil THEN Ok(hp)
        ELSE ItemAppend(hp, p, i)

\* Mutant of Demote: the item becomes the first child of its previous
\* sibling.
DemoteToHead(hp, i) ==
    LET p == hp.prev[i]
    IN  IF p = Nil THEN Ok(hp)
        ELSE Prepend([hp EXCEPT !.collapsed[p] = FALSE], p, i)

\* internal/data/item.go:152  func (i *Item) Demote()
Demote(hp, i) ==
    LET p == hp.prev[i]
    IN  IF p = Nil THEN Ok(hp)
        ELSE ItemAppend([hp EXCEPT !.collapsed[p] = FALSE], p, i)

\* Mutant of Promote: the item is put before its parent.
PromoteAbove(hp, wsRoot, i) ==
    IF i = wsRoot THEN Ok(hp)
    ELSE IF hp.parent[i] = wsRoot THEN Ok(hp)
    ELSE MoveAbove(hp, i, hp.parent[i])

\* Mutant of Promote: the item is never moved.
PromoteNever(hp, wsRoot, i) == Ok(hp)

\* Mutant of Promote: the floor is the parentless item, not the zoom root.
PromoteRealFloor(hp, wsRoot, i) ==
    IF hp.parent[i] = Nil THEN Ok(hp)
    ELSE IF hp.parent[hp.parent[i]] = Nil THEN Ok(hp)
    ELSE MoveBelow(hp, i, hp.parent[i])

\* internal/data/item.go:162  func (i *Item) Promote()
\* wsRoot is i.workspace.root, the zoom root.
Promote(hp, wsRoot, i) ==
    IF i = wsRoot THEN Ok(hp)
    ELSE IF hp.parent[i] = wsRoot THEN Ok(hp)
    ELSE MoveBelow(hp, i, hp.parent[i])

\* ------------------------------------------------------------- traversal
\* The items visited by `for c := i.head; c != nil; c = c.next`, in order.
\* The walk is cut after MaxItems steps, which a well-formed list never
\* needs.
RECURSIVE Walk(_, _, _)
Walk(hp, c, fuel) ==
    IF c = Nil \/ fuel = 0 THEN <<>>
    ELSE <<c>> \o Walk(hp, hp.next[c], fuel - 1)

Children(hp, i) == Walk(hp, hp.head[i], MaxItems)

Range(s) == {s[k] : k \in 1 .. Len(s)}

\* Items reached from i by the nested child loops of a recursive method
\* (i itself included).
RECURSIVE Reach(_, _, _)
Reach(hp, S, fuel) ==
    LET T == S \cup UNION {Range(Children(hp, x)) : x \in S}
    IN  IF T = S \/ fuel = 0 THEN S ELSE Reach(hp, T, fuel - 1)

Subtree(hp, i) == Reach(hp, {i}, MaxItems)

\* The recursion over i's subtree revisits an item: the Go call never
\* returns (unbounded recursion, which the runtime ends with a fatal
\* stack overflow).
Diverges(hp, i) ==
    \E x \in Subtree(hp, i) :
        x \in UNION {Subtree(hp, c) : c \in Range(Children(hp, x))}

\* Mutant of SetCollapsed: an item without children is collapsed as well.
SetCollapsedChildless(hp, i, value, recursive) ==
    LET S == IF recursive THEN Subtree(hp, i) ELSE {i}
        h1 == [hp EXCEPT !.collapsed =
                 [x \in Items |->
                    IF x \in S THEN value ELSE hp.collapsed[x]]]
    IN  IF recursive /\ Diverges(hp, i) THEN Panic(h1) ELSE Ok(h1)

\* internal/data/item.go:336  func (i *Item) SetCollapsed(value, recursive bool)
SetCollapsed(hp, i, value, recursive) ==
    LET S == IF recursive THEN Subtree(hp, i) ELSE {i}
        h1 == [hp EXCEPT !.collapsed =
                 [x \in Items |->
                    IF x \in S THEN (value /\ hp.head[x] # Nil)
                    ELSE hp.collapsed[x]]]
    IN  IF recursive /\ Diverges(hp, i) THEN Panic(h1) ELSE Ok(h1)

\* internal/data/item.go:178  func (i *Item) PrevRow() *Item
\* The loop of PrevRow: descend along tail while not collapsed.
RECURSIVE LastRow(_, _)
LastRow(hp, p) ==
    IF hp.tail[p] = Nil \/ hp.collapsed[p] THEN p
    ELSE LastRow(hp, hp.tail[p])

\* Mutant of PrevRow: the parent is returned even when it is the zoom root.
PrevRowPastZoom(hp, wsRoot, i) ==
    IF hp.prev[i] = Nil
      THEN hp.parent[i]
      ELSE LastRow(hp, hp.prev[i])

PrevRow(hp, wsRoot, i) ==
    IF hp.prev[i] = Nil
      THEN IF hp.parent[i] = wsRoot THEN Nil ELSE hp.parent[i]
      ELSE LastRow(hp, hp.prev[i])

\* internal/data/item.go:200  func (i *Item) NextRow() *Item
\* The loop of NextRow: climb from p to the first ancestor below the zoom
\* root that has a next sibling.
RECURSIVE ClimbNext(_, _, _)
ClimbNext(hp, wsRoot, p) ==
    IF p = Nil \/ p = wsRoot THEN Nil
    ELSE IF hp.next[p] # Nil THEN hp.next[p]
    ELSE ClimbNext(hp, wsRoot, hp.parent[p])

\* Mutant of NextRow: the first child is the next row even when the item is
\* collapsed.
NextRowIntoFolded(hp, wsRoot, i) ==
    IF hp.head[i] # Nil THEN hp.head[i]
    ELSE IF hp.next[i] # Nil THEN hp.next[i]
    ELSE ClimbNext(hp, wsRoot, hp.parent[i])

NextRow(hp, wsRoot, i) ==
    IF hp.head[i] # Nil /\ ~hp.collapsed[i] THEN hp.head[i]
    ELSE IF hp.next[i] # Nil THEN hp.next[i]
    ELSE ClimbNext(hp, wsRoot, hp.parent[i])

\* internal/data/item.go:248  func (i *Item) Depth() int
RECURSIVE DepthLoop(_, _, _, _)
DepthLoop(hp, wsRoot, i, depth) ==
    IF i = wsRoot THEN depth
    ELSE IF hp.parent[i] = Nil THEN -1
    ELSE DepthLoop(hp, wsRoot, hp.parent[i], depth + 1)

\* Mutant of Depth: the nil-parent test comes before the zoom-root test.
RECURSIVE DepthLoopNilFirst(_, _, _, _)
DepthLoopNilFirst(hp, wsRoot, i, depth) ==
    IF hp.parent[i] = Nil THEN -1
    ELSE IF i = wsRoot THEN depth
    ELSE DepthLoopNilFirst(hp, wsRoot, hp.parent[i], depth + 1)

DepthNilFirst(hp, wsRoot, i) == DepthLoopNilFirst(hp, wsRoot, i, 0)

Depth(hp, wsRoot, i) == DepthLoop(hp, wsRoot, i, 0)

\* internal/data/item.go:290  func (i *Item) DisplayedChildren() []*Item
\* DisplayedFrom(c) is the part of the loop that starts at child c.
RECURSIVE DisplayedFrom(_, _)
DisplayedFrom(hp, c) ==
    IF c = Nil THEN <<>>
    ELSE <<c>>
         \o (IF ~hp.collapsed[c] /\ hp.head[c] # Nil
               THEN DisplayedFrom(hp, hp.head[c]) ELSE <<>>)
         \o DisplayedFrom(hp, hp.next[c])

\* Mutant of DisplayedChildren: a collapsed receiver shows nothing.
DisplayedChildrenOwnFold(hp, i) ==
    IF hp.collapsed[i] THEN <<>> ELSE DisplayedFrom(hp, hp.head[i])

DisplayedChildren(hp, i) == DisplayedFrom(hp, hp.head[i])

\* internal/data/item.go:303  func (i *Item) RealRoot() *Item
RECURSIVE RealRootLoop(_, _)
RealRootLoop(hp, r) ==
    IF hp.parent[r] = Nil THEN r ELSE RealRootLoop(hp, hp.parent[r])

\* Mutant of RealRoot: the walk stops after one step.
RealRootOneUp(hp, wsRoot) ==
    IF hp.parent[wsRoot] = Nil THEN wsRoot ELSE hp.parent[wsRoot]

\* Mutant of RealRoot: the zoom root itself is taken for the real root.
RealRootIsZoom(hp, wsRoot) == wsRoot

RealRoot(hp, wsRoot) == RealRootLoop(hp, wsRoot)

\* ------------------------------------------------------ persistence codec
\* A workspace value: the items a Workspace reaches and its two pointers.
Cur ==
    [alloc |-> alloc, h |-> Heap, status |-> status, title |-> title,
     root |-> root, cursor |-> cursor]

\* internal/data/status.go:50  func (s Status) String() string
\* (the default branch panics; no call in the model passes a value outside
\* the enumeration)
StatusString(st) ==
    CASE st = StatusNone -> "NONE"
      [] st = StatusDone -> "DONE"
      [] st = StatusCancelled -> "CANC"
      [] st = StatusTodo -> "TODO"
      [] st = StatusWaiting -> "WAIT"
      [] st = StatusScheduled -> "SCHD"

\* Mutant of ParseStatus: the code is read without regard to case.
ParseStatusAnyCase(str) ==
    CASE str = "NONE" -> [val |-> StatusNone, err |-> FALSE]
      [] str = "DONE" -> [val |-> StatusDone, err |-> FALSE]
      [] str = "CANC" -> [val |-> StatusCancelled, err |-> FALSE]
      [] str = "TODO" \/ str = "todo" -> [val |-> StatusTodo, err |-> FALSE]
      [] str = "WAIT" -> [val |-> StatusWaiting, err |-> FALSE]
      [] str = "SCHD" -> [val |-> StatusScheduled, err |-> FALSE]
      [] OTHER -> [val |-> -1, err |-> TRUE]

\* internal/data/status.go:30  func ParseStatus(s string) (Status, error)
ParseStatus(str) ==
    CASE str = "NONE" -> [val |-> StatusNone, err |-> FALSE]
      [] str = "DONE" -> [val |-> StatusDone, err |-> FALSE]
      [] str = "CANC" -> [val |-> StatusCancelled, err |-> FALSE]
      [] str = "TODO" -> [val |-> StatusTodo, err |-> FALSE]
      [] str = "WAIT" -> [val |-> StatusWaiting, err |-> FALSE]
      [] str = "SCHD" -> [val |-> StatusScheduled, err |-> FALSE]
      [] OTHER -> [val |-> -1, err |-> TRUE]

\* strconv.Itoa and strconv.Atoi.  A string is a sequence of characters.
Digits == <<"0", "1", "2", "3", "4", "5", "6", "7", "8", "9">>

\* workspace.go:119  strconv.Itoa(storageVersion), for n >= 0
RECURSIVE Itoa(_)
Itoa(n) ==
    IF n < 10 THEN <<Digits[n + 1]>>
    ELSE Itoa(n \div 10) \o <<Digits[(n % 10) + 1]>>

IsDigit(c) == \E n \in 0 .. 9 : Digits[n + 1] = c

DigitVal(c) == CHOOSE n \in 0 .. 9 : Digits[n + 1] = c

RECURSIVE DigitsVal(_, _)
DigitsVal(str, acc) ==
    IF str = <<>> THEN acc
    ELSE DigitsVal(Tail(str), 10 * acc + DigitVal(Head(str)))

\* workspace.go:141  strconv.Atoi(vStr): an optional sign and one or more
\* decimal digits; anything else, the empty string included, is an error.
Atoi(str) ==
    LET signed == Len(str) > 0 /\ (str[1] = "+" \/ str[1] = "-")
        body == IF signed THEN Tail(str) ELSE str
    IN  IF body = <<>> \/ \E k \in 1 .. Len(body) : ~IsDigit(body[k])
          THEN [val |-> 0, err |-> TRUE]
          ELSE [val |-> IF signed /\ str[1] = "-"
                          THEN 0 - DigitsVal(body, 0)
                          ELSE DigitsVal(body, 0),
                err |-> FALSE]

\* An attribute or element that is not in the document.
NoAttr == "<absent>"

\* internal/data/item.go:26  strTrue = strconv.FormatBool(true)
strTrue == "true"

\* The id every item carries: NewItem (workspace.go:80) leaves Item.id the
\* zero UUID, and Load reads back the id Save wrote.
ZeroUUID == "00000000-0000-0000-0000-000000000000"

\* uuid.Parse accepts the ids in the model's documents.
UUIDParses(str) == str = ZeroUUID

\* Characters.  CharFFFF stands for a code point outside the character
\* range of XML 1.0 (U+FFFE, U+FFFF, the C0 controls other than tab, LF and
\* CR, an invalid UTF-8 byte); CharFFFD is the replacement character.
CharFFFF == "U+FFFF"
CharFFFD == "U+FFFD"

\* encoding/xml EscapeString, as Encoder.EncodeElement applies it to
\* i.title (item.go:388): markup characters become entity references and a
\* character outside the XML range is written as U+FFFD.
EscapeChar(c) ==
    CASE c = "\"" -> "&#34;"
      [] c = "'" -> "&#39;"
      [] c = "&" -> "&amp;"
      [] c = "<" -> "&lt;"
      [] c = ">" -> "&gt;"
      [] c = "\t" -> "&#x9;"
      [] c = "\n" -> "&#xA;"
      [] c = "\r" -> "&#xD;"
      [] c = CharFFFF -> CharFFFD
      [] OTHER -> c

EscapeText(t) == [k \in 1 .. Len(t) |-> EscapeChar(t[k])]

\* encoding/xml Decoder text, as Decoder.DecodeElement delivers it into
\* i.title (item.go:445): entity references become the character they name.
UnescapeChar(c) ==
    CASE c = "&#34;" -> "\""
      [] c = "&#39;" -> "'"
      [] c = "&amp;" -> "&"
      [] c = "&lt;" -> "<"
      [] c = "&gt;" -> ">"
      [] c = "&#x9;" -> "\t"
      [] c = "&#xA;" -> "\n"
      [] c = "&#xD;" -> "\r"
      [] OTHER -> c

UnescapeText(t) == [k \in 1 .. Len(t) |-> UnescapeChar(t[k])]

\* Mutant of Element: the status attribute is written for every item.
ElementStatusAlways(w, i, depth) ==
    [depth |-> depth,
     id |-> ZeroUUID,
     status |-> StatusString(w.status[i]),
     collapsed |-> IF w.h.collapsed[i] THEN strTrue ELSE NoAttr,
     selected |-> IF i = w.cursor THEN strTrue ELSE NoAttr,
     zoomed |-> IF i = w.root THEN strTrue ELSE NoAttr,
     hastitle |-> TRUE,
     title |-> EscapeText(w.title[i])]

\* internal/data/item.go:358  func (i *Item) MarshalXML: the start element
\* of item i, nested depth levels below the workspace element, and its
\* title element.
Element(w, i, depth) ==
    [depth |-> depth,
     id |-> ZeroUUID,
     status |-> IF w.status[i] # StatusNone
                  THEN StatusString(w.status[i]) ELSE NoAttr,
     collapsed |-> IF w.h.collapsed[i] THEN strTrue ELSE NoAttr,
     selected |-> IF i = w.cursor THEN strTrue ELSE NoAttr,
     zoomed |-> IF i = w.root THEN strTrue ELSE NoAttr,
     hastitle |-> TRUE,
     title |-> EscapeText(w.title[i])]

\* The items MarshalXML encodes, in the order it encodes them: the item,
\* then each child in the loop `for c := i.head; c != nil; c = c.Next()`.
RECURSIVE MarshalOrder(_, _)
RECURSIVE MarshalOrderFrom(_, _)
MarshalOrder(hp, i) == <<i>> \o MarshalOrderFrom(hp, hp.head[i])

MarshalOrderFrom(hp, c) ==
    IF c = Nil THEN <<>>
    ELSE MarshalOrder(hp, c) \o MarshalOrderFrom(hp, hp.next[c])

\* Nesting depth of the element of x under the element of top.
RECURSIVE NestLoop(_, _, _, _)
NestLoop(hp, top, x, n) ==
    IF x = top THEN n ELSE NestLoop(hp, top, hp.parent[x], n + 1)

\* internal/data/workspace.go:116  func (w *Workspace) MarshalXML
\* The document is the version attribute and the item elements in document
\* order, each with its nesting depth.
MarshalWorkspace(w) ==
    LET top == RealRoot(w.h, w.root)
        order == MarshalOrder(w.h, top)
    IN  [kind |-> "xml",
         hasversion |-> TRUE,
         version |-> Itoa(storageVersion),
         items |-> [k \in 1 .. Len(order) |->
                      Element(w, order[k], NestLoop(w.h, top, order[k], 0))]]

\* internal/data/workspace.go:48  the value NewWorkspace(directory, "Home")
\* returns in LoadWorkspace.
HomeTitle == <<"H", "o", "m", "e">>

BlankWorkspace ==
    [alloc |-> {Home},
     h |-> [parent |-> [x \in Items |-> Nil], head |-> [x \in Items |-> Nil],
            tail |-> [x \in Items |-> Nil], prev |-> [x \in Items |-> Nil],
            next |-> [x \in Items |-> Nil],
            collapsed |-> [x \in Items |-> FALSE]],
     status |-> [x \in Items |-> StatusNone],
     title |-> [x \in Items |-> IF x = Home THEN HomeTitle ELSE EmptyTitle],
     root |-> Home,
     cursor |-> Nil]

\* internal/data/item.go:449  c := i.workspace.NewItem("")
FreeId(w) == CHOOSE x \in Items \ w.alloc : \A y \in Items \ w.alloc : x <= y

WithNewItem(w) == [w EXCEPT !.alloc = w.alloc \cup {FreeId(w)}]

\* internal/data/item.go:401  func (i *Item) UnmarshalXML, up to the child
\* items: the attribute loop in the order Save writes the attributes, then
\* the title element.  A failing attribute ends the call with the fields
\* assigned so far.
DecodeItem(w, i, e) ==
    IF e.id # NoAttr /\ ~UUIDParses(e.id) THEN [ok |-> FALSE, w |-> w]
    ELSE
    LET ps == ParseStatus(e.status)
        w1 == IF e.status # NoAttr
                THEN [w EXCEPT !.status[i] = ps.val] ELSE w
    IN  IF e.status # NoAttr /\ ps.err THEN [ok |-> FALSE, w |-> w1]
        ELSE
        LET w2 == IF e.collapsed # NoAttr
                    THEN [w1 EXCEPT !.h.collapsed[i] = TRUE] ELSE w1
            w3 == IF e.selected # NoAttr
                    THEN [w2 EXCEPT !.cursor = i] ELSE w2
            w4 == IF e.zoomed # NoAttr
                    THEN [w3 EXCEPT !.root = i] ELSE w3
            w5 == IF e.hastitle
                    THEN [w4 EXCEPT !.title[i] = UnescapeText(e.title)]
                    ELSE w4
        IN  [ok |-> TRUE, w |-> w5]

\* internal/data/item.go:453  i.Append(c), run when the element of c ends:
\* c is the innermost open item and i the one that encloses it.
Adopt(w, stack) ==
    IF Len(stack) > 1
      THEN [w EXCEPT !.h = ItemAppend(w.h, stack[Len(stack) - 1],
                                      stack[Len(stack)]).h]
      ELSE w

\* The open elements deeper than depth d are closed, innermost first.
RECURSIVE CloseTo(_, _, _)
CloseTo(w, stack, d) ==
    IF Len(stack) <= d THEN [w |-> w, stack |-> stack]
    ELSE CloseTo(Adopt(w, stack), SubSeq(stack, 1, Len(stack) - 1), d)

\* The token loops of Workspace.UnmarshalXML (workspace.go:147) and
\* Item.UnmarshalXML (item.go:432) over the item elements from the k-th on;
\* stack holds the items whose elements are open.  A top-level element is
\* decoded into the item w.root points to (workspace.go:160), a nested one
\* into a new item (item.go:449).
RECURSIVE DecodeLoop(_, _, _, _)
\* After element k has been decoded with result r.
DecodeRest(r, stack, elems, k) ==
    IF ~r.ok THEN [ok |-> FALSE, w |-> r.w]
    ELSE DecodeLoop(r.w, stack, elems, k + 1)

\* Element k is decoded into item i of w.
DecodeInto(w, i, stack, elems, k) ==
    DecodeRest(DecodeItem(w, i, elems[k]), Append(stack, i), elems, k)

\* Element k starts, cl being the workspace and the open items after the
\* elements before it have ended.
DecodeStart(cl, elems, k) ==
    IF elems[k].depth = 0
      THEN DecodeInto(cl.w, cl.w.root, cl.stack, elems, k)
      ELSE DecodeInto(WithNewItem(cl.w), FreeId(cl.w), cl.stack, elems, k)

DecodeLoop(w, stack, elems, k) ==
    IF k > Len(elems) THEN [ok |-> TRUE, w |-> CloseTo(w, stack, 0).w]
    ELSE DecodeStart(CloseTo(w, stack, elems[k].depth), elems, k)

\* Mutant of UnmarshalWorkspace: a version newer than the supported one is
\* accepted.
UnmarshalWorkspaceNewer(w, doc) ==
    LET vStr == IF doc.hasversion THEN doc.version ELSE <<>>
        v == Atoi(vStr)
    IN  IF v.err THEN [ok |-> FALSE, w |-> w]
        ELSE IF v.val < storageVersion THEN [ok |-> FALSE, w |-> w]
        ELSE DecodeLoop(w, <<>>, doc.items, 1)

\* internal/data/workspace.go:133  func (w *Workspace) UnmarshalXML
UnmarshalWorkspace(w, doc) ==
    LET vStr == IF doc.hasversion THEN doc.version ELSE <<>>
        v == Atoi(vStr)
    IN  IF v.err THEN [ok |-> FALSE, w |-> w]
        ELSE IF v.val # storageVersion THEN [ok |-> FALSE, w |-> w]
        ELSE DecodeLoop(w, <<>>, doc.items, 1)

\* internal/data/workspace.go:59,76  w := NewWorkspace(directory, "Home");
\* return w, xml.Unmarshal(data, w), on an existing file whose content is
\* doc.  A file that is not a whole document ends the decoder with a syntax
\* error; what was decoded before the error is not modelled.
LoadDocument(doc) ==
    IF doc.kind # "xml" THEN [ok |-> FALSE, w |-> BlankWorkspace]
    ELSE UnmarshalWorkspace(BlankWorkspace, doc)

\* ------------------------------------------------------------- workspace
\* A freshly constructed item: every link nil, collapsed false.
Fresh(x) ==
    /\ parent[x] = Nil /\ head[x] = Nil /\ tail[x] = Nil
    /\ prev[x] = Nil /\ next[x] = Nil /\ ~collapsed[x]

\* Effect of a method call on the program: the heap it left, and the panic
\* if it raised one.
Call(r) ==
    /\ SetHeap(r.h)
    /\ panicked' = ~r.ok

\* internal/data/workspace.go:48  func NewWorkspace(directory, rootTitle string)
\* The cursor is nil.
NewWorkspace ==
    /\ alloc = {Home}
    /\ parent = [x \in Items |-> Nil]
    /\ head = [x \in Items |-> Nil]
    /\ tail = [x \in Items |-> Nil]
    /\ prev = [x \in Items |-> Nil]
    /\ next = [x \in Items |-> Nil]
    /\ collapsed = [x \in Items |-> FALSE]
    /\ root = Home
    /\ cursor = Nil
    /\ panicked = FALSE
    /\ status = [x \in Items |-> StatusNone]
    /\ title = [x \in Items |-> EmptyTitle]
    /\ canon = NoFile
    /\ baks = [t \in Times |-> NoFile]
    /\ now = 0
    /\ access = TRUE
    /\ pc = "run"
    /\ prior = NoFile
    /\ ret = "none"

\* ------------------------------------------------------ calls of package data
\* One action per exported method, on items the caller holds.
\* internal/data/workspace.go:80  func (w *Workspace) NewItem(title string)
\* The new item is the lowest unused item number; its title is "" as in
\* every call of NewItem outside the tests.
NewId == CHOOSE x \in Items \ alloc : \A y \in Items \ alloc : x <= y

NewItem ==
    /\ ~panicked /\ pc = "run"
    /\ Cardinality(alloc) < MaxTreeItems
    /\ alloc' = alloc \cup {NewId}
    /\ status' = [status EXCEPT ![NewId] = StatusNone]
    /\ title' = [title EXCEPT ![NewId] = EmptyTitle]
    /\ UNCHANGED <<linkVars, root, cursor, panicked, diskVars, procVars>>

ApiDetach(i) ==
    /\ ~panicked /\ pc = "run" /\ i \in alloc
    /\ Call(Ok(Detach(Heap, i)))
    /\ UNCHANGED <<alloc, root, cursor, attrVars, diskVars, procVars>>

\* MoveAbove and MoveBelow are called with an attached target, as their
\* contract demands.
ApiMoveAbove(i, t) ==
    /\ ~panicked /\ pc = "run" /\ i \in alloc /\ t \in alloc
    /\ parent[t] # Nil
    /\ Call(MoveAbove(Heap, i, t))
    /\ UNCHANGED <<alloc, root, cursor, attrVars, diskVars, procVars>>

ApiMoveBelow(i, t) ==
    /\ ~panicked /\ pc = "run" /\ i \in alloc /\ t \in alloc
    /\ parent[t] # Nil
    /\ Call(MoveBelow(Heap, i, t))
    /\ UNCHANGED <<alloc, root, cursor, attrVars, diskVars, procVars>>

ApiPrepend(p, i) ==
    /\ ~panicked /\ pc = "run" /\ p \in alloc /\ i \in alloc
    /\ Call(Prepend(Heap, p, i))
    /\ UNCHANGED <<alloc, root, cursor, attrVars, diskVars, procVars>>

ApiAppend(p, i) ==
    /\ ~panicked /\ pc = "run" /\ p \in alloc /\ i \in alloc
    /\ Call(ItemAppend(Heap, p, i))
    /\ UNCHANGED <<alloc, root, cursor, attrVars, diskVars, procVars>>

ApiMoveUp(i) ==
    /\ ~panicked /\ pc = "run" /\ i \in alloc
    /\ Call(MoveUp(Heap, i))
    /\ UNCHANGED <<alloc, root, cursor, attrVars, diskVars, procVars>>

ApiMoveDown(i) ==
    /\ ~panicked /\ pc = "run" /\ i \in alloc
    /\ Call(MoveDown(Heap, i))
    /\ UNCHANGED <<alloc, root, cursor, attrVars, diskVars, procVars>>

ApiDemote(i) ==
    /\ ~panicked /\ pc = "run" /\ i \in alloc
    /\ Call(Demote(Heap, i))
    /\ UNCHANGED <<alloc, root, cursor, attrVars, diskVars, procVars>>

ApiPromote(i) ==
    /\ ~panicked /\ pc = "run" /\ i \in alloc
    /\ Call(Promote(Heap, root, i))
    /\ UNCHANGED <<alloc, root, cursor, attrVars, diskVars, procVars>>

ApiSetCollapsed(i, value, recursive) ==
    /\ ~panicked /\ pc = "run" /\ i \in alloc
    /\ Call(SetCollapsed(Heap, i, value, recursive))
    /\ UNCHANGED <<alloc, root, cursor, attrVars, diskVars, procVars>>

\* internal/data/workspace.go:93  func (w *Workspace) SetRoot(item *Item)
ApiSetRoot(i) ==
    /\ ~panicked /\ pc = "run" /\ i \in alloc
    /\ root' = i
    /\ UNCHANGED <<alloc, linkVars, cursor, panicked, attrVars, diskVars,
                   procVars>>

\* ------------------------------------------------- list-level specification
\* The five list mutators of Item called in any order with any arguments:
\* an item may be moved next to itself, into its own subtree, or appended
\* to itself.  The only restraint is the documented one, an attached target.
InitApi == NewWorkspace

NextList ==
    \/ NewItem
    \/ \E i \in Items : ApiDetach(i)
    \/ \E i, t \in Items : ApiMoveAbove(i, t)
    \/ \E i, t \in Items : ApiMoveBelow(i, t)
    \/ \E p, i \in Items : ApiPrepend(p, i)
    \/ \E p, i \in Items : ApiAppend(p, i)

SpecList == InitApi /\ [][NextList]_vars

\* ---------------------------------------------------- tree-shaped callers
\* Proper ancestors of x along the parent links.
RECURSIVE AncLoop(_, _, _)
AncLoop(hp, x, fuel) ==
    IF hp.parent[x] = Nil \/ fuel = 0 THEN {}
    ELSE {hp.parent[x]} \cup AncLoop(hp, hp.parent[x], fuel - 1)

Anc(hp, x) == AncLoop(hp, x, MaxItems)

\* The caller keeps the items a forest below the workspace's own item: it
\* never moves an item next to or under itself or one of its descendants,
\* and never moves the item the workspace was created with.
Apart(i, t) == i # Home /\ i # t /\ i \notin Anc(Heap, t)

TreeMoveAbove(i, t) == Apart(i, t) /\ ApiMoveAbove(i, t)
TreeMoveBelow(i, t) == Apart(i, t) /\ ApiMoveBelow(i, t)
TreePrepend(p, i) == Apart(i, p) /\ ApiPrepend(p, i)
TreeAppend(p, i) == Apart(i, p) /\ ApiAppend(p, i)

\* -------------------------------------------- library-level specification
\* Any tree-shaped caller of package data: every structural method, the
\* fold flag and the zoom root, on at most MaxApiItems items.
ApiNewItem == Cardinality(alloc) < MaxApiItems /\ NewItem

NextApi ==
    \/ ApiNewItem
    \/ \E i \in Items : ApiDetach(i)
    \/ \E i, t \in Items : TreeMoveAbove(i, t)
    \/ \E i, t \in Items : TreeMoveBelow(i, t)
    \/ \E p, i \in Items : TreePrepend(p, i)
    \/ \E p, i \in Items : TreeAppend(p, i)
    \/ \E i \in Items : ApiMoveUp(i)
    \/ \E i \in Items : ApiMoveDown(i)
    \/ \E i \in Items : ApiDemote(i)
    \/ \E i \in Items : ApiPromote(i)
    \/ \E i \in Items, v, r \in BOOLEAN : ApiSetCollapsed(i, v, r)
    \/ \E i \in Items : ApiSetRoot(i)

SpecApi == InitApi /\ [][NextApi]_vars

\* ------------------------------------------------- view-level specification
\* Every forest of items with every assignment of collapsed flags the code
\* can produce, as input of the traversal queries: items are created,
\* appended, detached and folded.
NextView ==
    \/ NewItem
    \/ \E p, i \in Items : TreeAppend(p, i)
    \/ \E i \in Items : ApiDetach(i)
    \/ \E i \in Items, v, r \in BOOLEAN : ApiSetCollapsed(i, v, r)

SpecView == InitApi /\ [][NextView]_vars


\* --------------------------------------------------- editing specification
\* A tree-shaped caller that also moves the cursor and the zoom root and
\* edits titles and statuses: the workspace states Save can be asked to
\* write.
\* Titles given to SetTitle: plain text, text with a markup character, and
\* text with a character outside the XML range.
TitleInputs == {EmptyTitle, <<"a">>, <<"<">>, <<CharFFFF>>}

EditNewItem == Cardinality(alloc) < MaxEditItems /\ NewItem

\* internal/data/workspace.go:112  func (w *Workspace) SetCursor(item *Item)
ApiSetCursor(i) ==
    /\ ~panicked /\ pc = "run" /\ i \in alloc
    /\ cursor' = i
    /\ UNCHANGED <<alloc, linkVars, root, panicked, attrVars, diskVars,
                   procVars>>

\* internal/data/item.go:324  func (i *Item) SetTitle(val string)
ApiSetTitle(i, t) ==
    /\ ~panicked /\ pc = "run" /\ i \in alloc
    /\ t = EmptyTitle
         \/ Cardinality({x \in alloc \ {i} : title[x] # EmptyTitle}) < MaxMarked
    /\ title' = [title EXCEPT ![i] = t]
    /\ UNCHANGED <<alloc, linkVars, root, cursor, panicked, status, diskVars,
                   procVars>>

\* internal/data/item.go:330  func (i *Item) SetStatus(s Status)
ApiSetStatus(i, st) ==
    /\ ~panicked /\ pc = "run" /\ i \in alloc
    /\ st = StatusNone
         \/ Cardinality({x \in alloc \ {i} : status[x] # StatusNone}) < MaxMarked
    /\ status' = [status EXCEPT ![i] = st]
    /\ UNCHANGED <<alloc, linkVars, root, cursor, panicked, title, diskVars,
                   procVars>>

NextEdit ==
    \/ EditNewItem
    \/ \E p, i \in Items : TreeAppend(p, i)
    \/ \E i \in Items, v \in BOOLEAN : ApiSetCollapsed(i, v, FALSE)
    \/ \E i \in Items : ApiSetRoot(i)
    \/ \E i \in Items : ApiSetCursor(i)
    \/ \E i \in Items, t \in TitleInputs : ApiSetTitle(i, t)
    \/ \E i \in Items, st \in Statuses : ApiSetStatus(i, st)

SpecEdit == InitApi /\ [][NextEdit]_vars

\* ------------------------------------------------ persistence specification
\* internal/data/workspace.go:178  func (w *Workspace) Save() error
\* Save runs in four steps, each one filesystem or library call; pc tells
\* which call comes next.  Every call may fail the way the operating system
\* lets it fail.  prior and ret record what the canonical path held when the
\* call began and what the call returned.
\*
\* The content of a file is a document written by MarshalWorkspace, or
\* PartialFile: what os.WriteFile leaves when it fails after it has created
\* the file.
PartialFile == [kind |-> "partial"]

DiskNewItem == Cardinality(alloc) < MaxDiskItems /\ NewItem

\* Mutant of SaveStat: the existing file is never moved to a backup.
SaveStatNoBackup ==
    /\ ~panicked /\ pc = "run"
    /\ prior' = canon
    /\ ret' = "none"
    /\ pc' = "marshal"
    /\ UNCHANGED <<alloc, linkVars, root, cursor, panicked, attrVars,
                   diskVars>>

\* workspace.go:180  if _, err := os.Stat(p); err == nil
\* Stat succeeds when the file exists and the directory can be searched;
\* otherwise it returns an error (the file does not exist, or the path
\* cannot be resolved) and Save goes on without a backup.
SaveStat ==
    /\ ~panicked /\ pc = "run"
    /\ prior' = canon
    /\ ret' = "none"
    /\ pc' = IF access /\ canon # NoFile THEN "rename" ELSE "marshal"
    /\ UNCHANGED <<alloc, linkVars, root, cursor, panicked, attrVars,
                   diskVars>>

\* Mutant of SaveRename: the file is copied to the backup name and stays at
\* the canonical path.
SaveRenameCopies ==
    /\ pc = "rename"
    /\ \/ /\ baks' = [baks EXCEPT ![now] = canon]
          /\ pc' = "marshal"
          /\ UNCHANGED <<canon, ret>>
       \/ /\ ret' = "err"
          /\ pc' = "run"
          /\ UNCHANGED <<canon, baks>>
    /\ UNCHANGED <<alloc, linkVars, root, cursor, panicked, attrVars, now,
                   access, prior>>

\* workspace.go:181-185  os.Rename(p, backupPath), the backup named by the
\* clock's second.  Rename replaces a file that already has that name.  When
\* it fails nothing has moved and Save returns the error.
SaveRename ==
    /\ pc = "rename"
    /\ \/ /\ baks' = [baks EXCEPT ![now] = canon]
          /\ canon' = NoFile
          /\ pc' = "marshal"
          /\ UNCHANGED ret
       \/ /\ ret' = "err"
          /\ pc' = "run"
          /\ UNCHANGED <<canon, baks>>
    /\ UNCHANGED <<alloc, linkVars, root, cursor, panicked, attrVars, now,
                   access, prior>>

\* workspace.go:188-191  data, err := xml.MarshalIndent(w, "", "  ")
\* The error return is taken as possible.
SaveMarshal ==
    /\ pc = "marshal"
    /\ \/ /\ pc' = "write"
          /\ UNCHANGED ret
       \/ /\ ret' = "err"
          /\ pc' = "run"
    /\ UNCHANGED <<alloc, linkVars, root, cursor, panicked, attrVars,
                   diskVars, prior>>

\* workspace.go:193  return os.WriteFile(p, data, 0600)
\* WriteFile opens the path with O_WRONLY|O_CREATE|O_TRUNC and writes data.
\* The open fails when the directory cannot be reached, and may fail
\* otherwise; a failed open leaves the disk as it was.  Once the file is
\* open its old content is gone, and a failed write leaves a partial file.
SaveWrite ==
    /\ pc = "write"
    /\ \/ /\ access
          /\ canon' = MarshalWorkspace(Cur)
          /\ ret' = "ok"
       \/ /\ access
          /\ canon' = PartialFile
          /\ ret' = "err"
       \/ /\ ret' = "err"
          /\ UNCHANGED canon
    /\ pc' = "run"
    /\ UNCHANGED <<alloc, linkVars, root, cursor, panicked, attrVars, baks,
                   now, access, prior>>

\* The clock (time.Now().Unix(), workspace.go:181) moves on by a second.
Tick ==
    /\ now < MaxClock
    /\ now' = now + 1
    /\ UNCHANGED <<alloc, linkVars, root, cursor, panicked, attrVars, canon,
                   baks, access, pc, prior, ret>>

\* The environment takes away or gives back the permission to search the
\* workspace directory, between two calls of Save.
Chmod ==
    /\ pc = "run"
    /\ access' = ~access
    /\ UNCHANGED <<alloc, linkVars, root, cursor, panicked, attrVars, canon,
                   baks, now, pc, prior, ret>>

\* The process is interrupted inside Save (workspace.go:178-194): no further
\* step runs and the disk stays as the last completed call left it.
Kill ==
    /\ pc \in {"rename", "marshal", "write"}
    /\ pc' = "exited"
    /\ ret' = "killed"
    /\ UNCHANGED <<alloc, linkVars, root, cursor, panicked, attrVars,
                   diskVars, prior>>

NextDisk ==
    \/ DiskNewItem
    \/ \E p, i \in Items : TreeAppend(p, i)
    \/ \E i \in Items : ApiSetCursor(i)
    \/ SaveStat
    \/ SaveRename
    \/ SaveMarshal
    \/ SaveWrite
    \/ Tick
    \/ Chmod
    \/ Kill

SpecDisk == InitApi /\ [][NextDisk]_vars

\* ----------------------------------------------------- load specification
\* The program starts: LoadWorkspace (workspace.go:57) runs on a directory
\* that holds no file, a partial file, or any document of InputDocs.
\* Number of item elements in a document given to Load.
MaxDocItems == 2

\* Values of the workspace element's version attribute.
VersionInputs ==
    {<<>>, <<"x">>, <<"1">>, <<"2">>, <<"3">>, <<"+", "2">>, <<"0", "2">>,
     <<"-", "2">>, <<"2", "0">>, <<"2", ".", "0">>}

\* Values of an item element's status attribute.
StatusInputs ==
    {"TODO", "DONE", "CANC", "WAIT", "SCHD", "NONE", "", "todo", "OPEN"}

\* Nesting depths of n item elements under one top-level element.
DepthSeqs(n) ==
    {ds \in [1 .. n -> 0 .. n - 1] :
        /\ ds[1] = 0
        /\ \A k \in 2 .. n : ds[k] >= 1 /\ ds[k] <= ds[k - 1] + 1}

Flag(b) == IF b THEN strTrue ELSE NoAttr

\* Item elements: any nesting, any markers, and a status attribute on at
\* most one of them.
InputItems ==
    UNION {
      {[k \in 1 .. n |->
          [depth |-> ds[k],
           id |-> ZeroUUID,
           status |-> IF k = at THEN st ELSE NoAttr,
           collapsed |-> Flag(fl[k][1]),
           selected |-> Flag(fl[k][2]),
           zoomed |-> Flag(fl[k][3]),
           hastitle |-> TRUE,
           title |-> EmptyTitle]] :
         ds \in DepthSeqs(n),
         fl \in [1 .. n -> BOOLEAN \X BOOLEAN \X BOOLEAN],
         at \in 0 .. n,
         st \in StatusInputs} : n \in 1 .. MaxDocItems}

PlainItem ==
    <<[depth |-> 0, id |-> ZeroUUID, status |-> NoAttr, collapsed |-> NoAttr,
       selected |-> NoAttr, zoomed |-> NoAttr, hastitle |-> TRUE,
       title |-> EmptyTitle]>>

InputDocs ==
    {[kind |-> "xml", hasversion |-> TRUE, version |-> Itoa(storageVersion),
      items |-> its] : its \in InputItems}
    \cup {[kind |-> "xml", hasversion |-> TRUE, version |-> v,
           items |-> PlainItem] : v \in VersionInputs}
    \cup {[kind |-> "xml", hasversion |-> FALSE, version |-> <<>>,
           items |-> PlainItem]}

InitLoad ==
    /\ alloc = {}
    /\ parent = [x \in Items |-> Nil]
    /\ head = [x \in Items |-> Nil]
    /\ tail = [x \in Items |-> Nil]
    /\ prev = [x \in Items |-> Nil]
    /\ next = [x \in Items |-> Nil]
    /\ collapsed = [x \in Items |-> FALSE]
    /\ root = Nil
    /\ cursor = Nil
    /\ panicked = FALSE
    /\ status = [x \in Items |-> StatusNone]
    /\ title = [x \in Items |-> EmptyTitle]
    /\ canon \in InputDocs \cup {NoFile, PartialFile}
    /\ baks = [t \in Times |-> NoFile]
    /\ now = 0
    /\ access \in BOOLEAN
    /\ pc = "boot"
    /\ prior = NoFile
    /\ ret = "none"

\* The workspace w becomes the program's workspace.
SetWorkspace(w) ==
    /\ alloc' = w.alloc
    /\ SetHeap(w.h)
    /\ status' = w.status
    /\ title' = w.title
    /\ root' = w.root
    /\ cursor' = w.cursor

\* Mutant of BootWorkspace: the cursor is left nil.
BootWorkspaceNoCursor ==
    LET i == FreeId(BlankWorkspace)
        w1 == WithNewItem(BlankWorkspace)
    IN  [w1 EXCEPT !.h = ItemAppend(w1.h, Home, i).h]

\* workspace.go:61-66  the workspace LoadWorkspace builds when there is no
\* file: "Home" with one empty child, which is the cursor.
BootWorkspace ==
    LET i == FreeId(BlankWorkspace)
        w1 == WithNewItem(BlankWorkspace)
    IN  [w1 EXCEPT !.h = ItemAppend(w1.h, Home, i).h, !.cursor = i]

\* internal/data/workspace.go:57  func LoadWorkspace(directory string)
\* - Stat fails other than by "not exist": return nil, err.
\* - no file: the bootstrap workspace is built and Save is called; Save's own
\*   Stat finds no file and goes on to MarshalIndent.
\* - ReadFile fails: return nil, err.
\* - otherwise: return w, xml.Unmarshal(data, w): the workspace is returned
\*   as Unmarshal left it, with or without an error.
\* After a return with an error pc is "failed".
LoadWorkspace ==
    /\ pc = "boot"
    /\ prior' = canon
    /\ \/ /\ ~access
          /\ pc' = "failed" /\ ret' = "err"
          /\ UNCHANGED <<alloc, linkVars, root, cursor, attrVars>>
       \/ /\ access /\ canon = NoFile
          /\ SetWorkspace(BootWorkspace)
          /\ pc' = "marshal" /\ ret' = "none"
       \/ /\ access /\ canon # NoFile
          /\ pc' = "failed" /\ ret' = "err"
          /\ UNCHANGED <<alloc, linkVars, root, cursor, attrVars>>
       \/ /\ access /\ canon # NoFile
          /\ LET r == LoadDocument(canon)
             IN  /\ SetWorkspace(r.w)
                 /\ pc' = IF r.ok THEN "run" ELSE "failed"
                 /\ ret' = IF r.ok THEN "ok" ELSE "err"
    /\ UNCHANGED <<panicked, diskVars>>

NextLoad ==
    \/ LoadWorkspace
    \/ SaveMarshal
    \/ SaveWrite

SpecLoad == InitLoad /\ [][NextLoad]_vars

\* ------------------------------------------------ controller specification
\* The commands of internal/model/outline.go on the workspace LoadWorkspace
\* builds in an empty directory, together with Workspace.ZoomOut, the library
\* method the zoomOut command repeats.
\*
\* The text input holds the title of the cursor item (NewOutline, outline.go:58,
\* and updateTextInput, outline.go:128).  No keystroke is typed in this
\* specification, so saveCurrentTitle (outline.go:116) assigns to the cursor
\* item the title it already has.

\* internal/model/outline.go:52  NewOutline(w) on the workspace of
\* LoadWorkspace (main.go:33-43) after the bootstrap save.
InitOutline ==
    /\ alloc = BootWorkspace.alloc
    /\ parent = BootWorkspace.h.parent
    /\ head = BootWorkspace.h.head
    /\ tail = BootWorkspace.h.tail
    /\ prev = BootWorkspace.h.prev
    /\ next = BootWorkspace.h.next
    /\ collapsed = BootWorkspace.h.collapsed
    /\ root = BootWorkspace.root
    /\ cursor = BootWorkspace.cursor
    /\ panicked = FALSE
    /\ status = BootWorkspace.status
    /\ title = BootWorkspace.title
    /\ canon = MarshalWorkspace(BootWorkspace)
    /\ baks = [t \in Times |-> NoFile]
    /\ now = 0
    /\ access = TRUE
    /\ pc = "run"
    /\ prior = NoFile
    /\ ret = "ok"

\* A command runs: the program has not ended, and the cursor is the item
\* NewOutline and moveCursor left there.
OutlineRuns == ~panicked /\ pc = "run" /\ cursor # Nil

\* Mutant of MoveCursor: a nil item is selected as well.
MoveCursorToNil(wsCursor, item) == item

\* internal/model/outline.go:131  func (m *Outline) moveCursor(item *data.Item)
\* The cursor after the call.
MoveCursor(wsCursor, item) == IF item = Nil THEN wsCursor ELSE item

\* internal/model/outline.go:145  func (m *Outline) cursorUp()
CursorUp ==
    /\ OutlineRuns
    /\ cursor' = MoveCursor(cursor, PrevRow(Heap, root, cursor))
    /\ UNCHANGED <<alloc, linkVars, root, panicked, attrVars, diskVars,
                   procVars>>

\* internal/model/outline.go:150  func (m *Outline) cursorDown()
CursorDown ==
    /\ OutlineRuns
    /\ cursor' = MoveCursor(cursor, NextRow(Heap, root, cursor))
    /\ UNCHANGED <<alloc, linkVars, root, panicked, attrVars, diskVars,
                   procVars>>

\* internal/model/outline.go:217  func (m *Outline) toggleItemFolded(recursive bool)
ToggleItemFolded(recursive) ==
    /\ OutlineRuns
    /\ Call(SetCollapsed(Heap, cursor, ~collapsed[cursor], recursive))
    /\ UNCHANGED <<alloc, root, cursor, attrVars, diskVars, procVars>>

\* internal/model/outline.go:293  func (m *Outline) addSibling()
AddSibling ==
    /\ OutlineRuns
    /\ Cardinality(alloc) < MaxTreeItems
    /\ alloc' = alloc \cup {NewId}
    /\ status' = [status EXCEPT ![NewId] =
                    IF status[cursor] # StatusNone THEN StatusTodo
                    ELSE StatusNone]
    /\ title' = [title EXCEPT ![NewId] = EmptyTitle]
    /\ Call(MoveBelow(Heap, NewId, cursor))
    /\ cursor' = IF MoveBelow(Heap, NewId, cursor).ok
                   THEN MoveCursor(cursor, NewId) ELSE cursor
    /\ UNCHANGED <<root, diskVars, procVars>>

\* The heap after cur.SetCollapsed(false, false); cur.Append(next)
\* (outline.go:315-316).
UnfoldAppend(hp, cur, item) ==
    ItemAppend(SetCollapsed(hp, cur, FALSE, FALSE).h, cur, item)

\* internal/model/outline.go:306  func (m *Outline) addChild()
AddChild ==
    /\ OutlineRuns
    /\ Cardinality(alloc) < MaxTreeItems
    /\ alloc' = alloc \cup {NewId}
    /\ status' = [status EXCEPT ![NewId] =
                    IF tail[cursor] # Nil /\ status[tail[cursor]] # StatusNone
                      THEN StatusTodo ELSE StatusNone]
    /\ title' = [title EXCEPT ![NewId] = EmptyTitle]
    /\ Call(UnfoldAppend(Heap, cursor, NewId))
    /\ cursor' = IF UnfoldAppend(Heap, cursor, NewId).ok
                   THEN MoveCursor(cursor, NewId) ELSE cursor
    /\ UNCHANGED <<root, diskVars, procVars>>

\* internal/model/outline.go:155  func (m *Outline) cursorToParent()
CursorToParent ==
    /\ OutlineRuns
    /\ cursor' = IF parent[cursor] # root
                   THEN MoveCursor(cursor, parent[cursor]) ELSE cursor
    /\ UNCHANGED <<alloc, linkVars, root, panicked, attrVars, diskVars,
                   procVars>>

\* internal/model/outline.go:164  func (m *Outline) cursorToTail()
CursorToTail ==
    /\ OutlineRuns
    /\ IF tail[cursor] # Nil
         THEN /\ Call(SetCollapsed(Heap, cursor, FALSE, FALSE))
              /\ cursor' = MoveCursor(cursor, tail[cursor])
         ELSE UNCHANGED <<linkVars, panicked, cursor>>
    /\ UNCHANGED <<alloc, root, attrVars, diskVars, procVars>>

\* internal/model/outline.go:205  func (m *Outline) moveRowUp()
MoveRowUp ==
    /\ OutlineRuns
    /\ Call(MoveUp(Heap, cursor))
    /\ UNCHANGED <<alloc, root, cursor, attrVars, diskVars, procVars>>

\* internal/model/outline.go:211  func (m *Outline) moveRowDown()
MoveRowDown ==
    /\ OutlineRuns
    /\ Call(MoveDown(Heap, cursor))
    /\ UNCHANGED <<alloc, root, cursor, attrVars, diskVars, procVars>>

\* internal/model/outline.go:239  func (m *Outline) demoteRow()
DemoteRow ==
    /\ OutlineRuns
    /\ Call(Demote(Heap, cursor))
    /\ UNCHANGED <<alloc, root, cursor, attrVars, diskVars, procVars>>

\* internal/model/outline.go:250  func (m *Outline) promoteRow()
PromoteRow ==
    /\ OutlineRuns
    /\ Call(Promote(Heap, root, cursor))
    /\ UNCHANGED <<alloc, root, cursor, attrVars, diskVars, procVars>>

\* internal/model/outline.go:270-277  the item deleteItem selects next: the
\* next sibling, else the previous sibling, else the parent.
NextSelected(hp, cur) ==
    IF hp.next[cur] # Nil THEN hp.next[cur]
    ELSE IF hp.prev[cur] # Nil THEN hp.prev[cur]
    ELSE hp.parent[cur]

\* Mutant of DeleteItem: an item with children is deleted in both modes.
DeleteItemAnyway(recursive) ==
    /\ OutlineRuns
    /\ IF NextSelected(Heap, cursor) = root
         THEN UNCHANGED <<linkVars, panicked, cursor>>
         ELSE /\ Call(Ok(Detach(Heap, cursor)))
              /\ cursor' = MoveCursor(cursor, NextSelected(Heap, cursor))
    /\ UNCHANGED <<alloc, root, attrVars, diskVars, procVars>>

\* internal/model/outline.go:267  func (m *Outline) deleteItem(recursive bool)
\* The two refusals change only the status line.
DeleteItem(recursive) ==
    /\ OutlineRuns
    /\ IF NextSelected(Heap, cursor) = root
            \/ (head[cursor] # Nil /\ ~recursive)
         THEN UNCHANGED <<linkVars, panicked, cursor>>
         ELSE /\ Call(Ok(Detach(Heap, cursor)))
              /\ cursor' = MoveCursor(cursor, NextSelected(Heap, cursor))
    /\ UNCHANGED <<alloc, root, attrVars, diskVars, procVars>>

\* Mutant of ZoomInTo: the cursor stays on the item zoomed into.
ZoomInKeepsCursor(hp, wsRoot, wsCursor) ==
    IF hp.head[wsCursor] = Nil
      THEN [root |-> wsRoot, cursor |-> wsCursor]
      ELSE [root |-> wsCursor, cursor |-> wsCursor]

\* internal/model/outline.go:176  func (m *Outline) zoomIn()
\* The zoom root and the cursor after the call.
ZoomInTo(hp, wsRoot, wsCursor) ==
    IF hp.head[wsCursor] = Nil
      THEN [root |-> wsRoot, cursor |-> wsCursor]
      ELSE [root |-> wsCursor,
            cursor |-> MoveCursor(wsCursor, hp.head[wsCursor])]

\* internal/model/outline.go:176  func (m *Outline) zoomIn()
ZoomIn ==
    /\ OutlineRuns
    /\ IF head[cursor] = Nil
         THEN UNCHANGED <<root, cursor>>
         ELSE /\ root' = cursor
              /\ cursor' = MoveCursor(cursor, head[cursor])
    /\ UNCHANGED <<alloc, linkVars, panicked, attrVars, diskVars, procVars>>

\* Mutant of ZoomOut: the cursor stays where it is.
ZoomOutKeepsCursor(hp, wsRoot, wsCursor) ==
    IF hp.parent[wsRoot] = Nil
      THEN [root |-> wsRoot, cursor |-> wsCursor]
      ELSE [root |-> hp.parent[wsRoot], cursor |-> wsCursor]

\* internal/data/workspace.go:97  func (w *Workspace) ZoomOut()
\* The zoom root and the cursor after the call.
ZoomOut(hp, wsRoot, wsCursor) ==
    IF hp.parent[wsRoot] = Nil
      THEN [root |-> wsRoot, cursor |-> wsCursor]
      ELSE [root |-> hp.parent[wsRoot],
            cursor |-> IF hp.collapsed[wsRoot] THEN wsRoot ELSE wsCursor]

ApiZoomOut ==
    /\ ~panicked /\ pc = "run"
    /\ root' = ZoomOut(Heap, root, cursor).root
    /\ cursor' = ZoomOut(Heap, root, cursor).cursor
    /\ UNCHANGED <<alloc, linkVars, panicked, attrVars, diskVars, procVars>>

\* internal/model/outline.go:188  func (m *Outline) zoomOut()
OutlineZoomOut ==
    /\ OutlineRuns
    /\ IF parent[root] = Nil
         THEN UNCHANGED <<root, cursor>>
         ELSE /\ root' = parent[root]
              /\ cursor' = IF collapsed[root]
                             THEN MoveCursor(cursor, root) ELSE cursor
    /\ UNCHANGED <<alloc, linkVars, panicked, attrVars, diskVars, procVars>>

NextOutline ==
    \/ CursorUp
    \/ CursorDown
    \/ CursorToParent
    \/ CursorToTail
    \/ MoveRowUp
    \/ MoveRowDown
    \/ DemoteRow
    \/ PromoteRow
    \/ \E r \in BOOLEAN : DeleteItem(r)
    \/ \E r \in BOOLEAN : ToggleItemFolded(r)
    \/ AddSibling
    \/ AddChild
    \/ ZoomIn
    \/ OutlineZoomOut
    \/ ApiZoomOut

SpecOutline == InitOutline /\ [][NextOutline]_vars

\* ------------------------------------------------ row-editing specification
\* The controller of the earlier revision kept in src/unnamed/part_002, whose
\* rows are edited in place: Enter (addRow) splits the row at the text
\* position or, on an empty row, moves it out one level, and Backspace at
\* text position 0 (deleteEmptyRow) joins the row with the previous one.
\* Its moveCursor, cursorUp, cursorDown, demoteRow and toggleRowCollapsed
\* are the code of moveCursor, cursorUp, cursorDown, demoteRow and
\* toggleItemFolded above.
\*
\* The text input is not part of the state: the text and the position the
\* user has typed when addRow or deleteEmptyRow runs are inputs of the
\* command.

\* Longest title an item gets.
MaxTitleLen == 1

\* Texts in the text input.
RowInputs == {EmptyTitle, <<"a">>}

\* src/unnamed/part_002:298-300  the loop
\* `for c := cur.Head(); c != nil; c = c.Next() { prevRow.Append(c) }`:
\* c.Next() is read after Append has moved c.
RECURSIVE AdoptLoop(_, _, _, _)
AdoptStep(a, prevRow, c, fuel) ==
    IF ~a.ok THEN a
    ELSE AdoptLoop(a.h, prevRow, a.h.next[c], fuel - 1)

AdoptLoop(hp, prevRow, c, fuel) ==
    IF c = Nil \/ fuel = 0 THEN Ok(hp)
    ELSE AdoptStep(ItemAppend(hp, prevRow, c), prevRow, c, fuel)

\* The workspace when deleteEmptyRow ends after its loop with result a:
\* moveCursor(prevRow) saves the text v as the old cursor's title and selects
\* prevRow, then cur.Detach() (part_002:302-304).  A panic in the loop ends
\* the command there.
JoinEnd(w, a, prevRow, v) ==
    IF ~a.ok THEN [w |-> [w EXCEPT !.h = a.h], ok |-> FALSE]
    ELSE [w |-> [w EXCEPT !.h = Detach(a.h, w.cursor),
                          !.title[w.cursor] = v,
                          !.cursor = prevRow],
          ok |-> TRUE]

\* The workspace after prevRow.SetTitle(prevRow.Title() + v) when v is not
\* empty (part_002:291-293).
JoinTitle(w, prevRow, v) ==
    IF v = EmptyTitle THEN w
    ELSE [w EXCEPT !.title[prevRow] = w.title[prevRow] \o v]

\* src/unnamed/part_002:279  func (m *Outline) deleteEmptyRow(message tea.Msg)
\* with the text position at 0 and the text v in the input: the workspace
\* after the call, and whether the call returned.
DeleteEmptyRow(w, v) ==
    LET prevRow == PrevRow(w.h, w.root, w.cursor)
    IN  IF prevRow = Nil THEN [w |-> w, ok |-> TRUE]
        ELSE JoinEnd(JoinTitle(w, prevRow, v),
                     AdoptLoop(w.h, prevRow, w.h.head[w.cursor], MaxItems),
                     prevRow, v)

\* Backspace with text v at position pos.  At another position than 0 the
\* key goes to the text input (updateRow, part_002:280-282).
RowsDeleteEmptyRow ==
    /\ OutlineRuns
    /\ \E v \in RowInputs, pos \in 0 .. MaxTitleLen :
         /\ pos <= Len(v)
         /\ IF pos # 0
              THEN UNCHANGED <<alloc, linkVars, root, cursor, attrVars,
                               panicked>>
              ELSE /\ PrevRow(Heap, root, cursor) # Nil =>
                        Len(title[PrevRow(Heap, root, cursor)]) + Len(v)
                            <= MaxTitleLen
                   /\ SetWorkspace(DeleteEmptyRow(Cur, v).w)
                   /\ panicked' = ~DeleteEmptyRow(Cur, v).ok
    /\ UNCHANGED <<diskVars, procVars>>

\* src/unnamed/part_002:309  func (m *Outline) addRow()
\* Enter with text v at position pos.
RowsAddRow ==
    /\ OutlineRuns
    /\ \E v \in RowInputs, pos \in 0 .. MaxTitleLen :
         /\ pos <= Len(v)
         /\ IF v = EmptyTitle
              THEN /\ IF Depth(Heap, root, cursor) > 1
                        THEN Call(MoveBelow(Heap, cursor, parent[cursor]))
                        ELSE UNCHANGED <<linkVars, panicked>>
                   /\ UNCHANGED <<alloc, cursor, attrVars>>
              ELSE /\ alloc # Items
                   /\ alloc' = alloc \cup {NewId}
                   /\ status' = [status EXCEPT ![NewId] = StatusNone]
                   /\ title' = [title EXCEPT
                                  ![cursor] = SubSeq(v, 1, pos),
                                  ![NewId] = SubSeq(v, pos + 1, Len(v))]
                   /\ Call(MoveBelow(Heap, NewId, cursor))
                   /\ cursor' = IF MoveBelow(Heap, NewId, cursor).ok
                                  THEN MoveCursor(cursor, NewId) ELSE cursor
    /\ UNCHANGED <<root, diskVars, procVars>>

NextRows ==
    \/ CursorUp
    \/ CursorDown
    \/ DemoteRow
    \/ \E r \in BOOLEAN : ToggleItemFolded(r)
    \/ RowsAddRow
    \/ RowsDeleteEmptyRow

SpecRows == InitOutline /\ [][NextRows]_vars

\* ---------------------------------------------------- status specification
\* Trees whose items carry any statuses, as input of ToDoStats: items are
\* created and appended, and SetStatus (item.go:330) is called on any item
\* with any status, as the status commands of the controller do on the
\* cursor (outline.go:576-593).
\* Number of items the status specification creates.
MaxTodoItems == 3

TodoNewItem == Cardinality(alloc) < MaxTodoItems /\ NewItem

TodoSetStatus(i, st) ==
    /\ ~panicked /\ pc = "run" /\ i \in alloc
    /\ status' = [status EXCEPT ![i] = st]
    /\ UNCHANGED <<alloc, linkVars, root, cursor, panicked, title, diskVars,
                   procVars>>

\* internal/data/item.go:273  the loop of ToDoStats from child c on.
RECURSIVE ToDoLoop(_, _, _, _, _, _)
ToDoLoop(hp, st, c, completed, total, fuel) ==
    IF c = Nil \/ fuel = 0 THEN [completed |-> completed, total |-> total]
    ELSE ToDoLoop(hp, st, hp.next[c],
                  IF st[c] = StatusDone \/ st[c] = StatusCancelled
                    THEN completed + 1 ELSE completed,
                  IF st[c] # StatusNone THEN total + 1 ELSE total,
                  fuel - 1)

\* Mutant of ToDoStats: every child counts as completed.
ToDoStatsAllDone(hp, st, item) ==
    [completed |-> Len(Children(hp, item)),
     total |-> ToDoLoop(hp, st, hp.head[item], 0, 0, MaxItems).total]

\* internal/data/item.go:271  func (item *Item) ToDoStats() (int, int)
\* st is the Item.status field of all items.
ToDoStats(hp, st, item) == ToDoLoop(hp, st, hp.head[item], 0, 0, MaxItems)

NextTodo ==
    \/ TodoNewItem
    \/ \E p, i \in Items : TreeAppend(p, i)
    \/ \E i \in Items, st \in Statuses : TodoSetStatus(i, st)

SpecTodo == InitApi /\ [][NextTodo]_vars

\* ================================================================= claims
\* The children list of p is a valid doubly-linked list.
ListValid(hp, p) ==
    LET L == Children(hp, p)
    IN  /\ (hp.head[p] = Nil) <=> (hp.tail[p] = Nil)
        /\ hp.head[p] # Nil =>
             /\ hp.prev[hp.head[p]] = Nil
             /\ hp.next[hp.tail[p]] = Nil
             /\ L[Len(L)] = hp.tail[p]
        /\ \A k \in 1 .. Len(L) :
             /\ hp.parent[L[k]] = p
             /\ hp.next[L[k]] # Nil => hp.prev[hp.next[L[k]]] = L[k]
             /\ hp.prev[L[k]] # Nil => hp.next[hp.prev[L[k]]] = L[k]

\* C1: after any sequence of Append, Prepend, MoveAbove, MoveBelow and
\* Detach calls on any items (targets of MoveAbove/MoveBelow attached), the
\* children list of every item is a valid doubly-linked list: head absent
\* iff tail absent, head.prev and tail.next absent, next/prev mutually
\* consistent, next from head reaches tail, every child's parent the owner.
C1_ListsValid == \A p \in Items : ListValid(Heap, p)

\* A list of three children whose order is not the order of creation: an
\* item was spliced in front of an older one and another behind it.
C1_Witness ==
    /\ ~panicked
    /\ \E p \in alloc :
         LET L == Children(Heap, p)
         IN  Len(L) = 3 /\ L[1] > L[2] /\ L[2] < L[3]

\* x lies strictly inside the subtree of r.
Inside(hp, r, x) == r \in Anc(hp, x)

\* Document order: x comes before y in depth-first pre-order, stated on the
\* parent and next links alone.  x is an ancestor of y, or the branches
\* that lead to x and to y part at two siblings of which x's comes first.
SiblingBefore(hp, a, b) ==
    /\ a # b
    /\ b \in Range(Walk(hp, a, MaxItems))

DocBefore(hp, x, y) ==
    \/ x \in Anc(hp, y)
    \/ \E a \in Anc(hp, x) \cup {x}, b \in Anc(hp, y) \cup {y} :
         /\ hp.parent[a] # Nil
         /\ hp.parent[a] = hp.parent[b]
         /\ SiblingBefore(hp, a, b)

\* C4: with R the zoom root and L = R.DisplayedChildren(), L[k].NextRow()
\* is L[k+1] (no row for the last element) and L[k].PrevRow() is L[k-1]
\* (no row for the first), for every tree shape, every assignment of
\* collapsed flags and every R.
C4_RowsMatchDisplayed ==
    \A R \in alloc :
        LET L == DisplayedChildren(Heap, R)
        IN  \A k \in 1 .. Len(L) :
              /\ NextRow(Heap, R, L[k]) = IF k < Len(L) THEN L[k + 1] ELSE Nil
              /\ PrevRow(Heap, R, L[k]) = IF k > 1 THEN L[k - 1] ELSE Nil

\* A zoom root whose rows hold a collapsed item with a hidden child (its
\* next row skips the child), followed by a row reached by climbing past
\* an open item's last child.
C4_Witness ==
    \E R \in alloc :
        LET L == DisplayedChildren(Heap, R)
        IN  /\ Len(L) >= 2
            /\ \E k \in 1 .. Len(L) - 1 :
                 /\ collapsed[L[k]] /\ head[L[k]] # Nil
            /\ \E x \in alloc : Inside(Heap, R, x) /\ x \notin Range(L)

\* Second case of C4: an open item whose first child is its next row and
\* whose last child's next row is found by climbing to an ancestor's
\* sibling.
C4_WitnessClimb ==
    \E R \in alloc :
        LET L == DisplayedChildren(Heap, R)
        IN  \E k \in 1 .. Len(L) - 1 :
              /\ head[L[k]] = Nil /\ next[L[k]] = Nil
              /\ parent[L[k]] # R
              /\ NextRow(Heap, R, L[k]) = L[k + 1]

\* C5: P.DisplayedChildren() is exactly the depth-first pre-order sequence
\* of the proper descendants of P none of whose ancestors strictly below P
\* is collapsed; every listed item appears once; P's own flag is ignored.
Shown(hp, P) ==
    {x \in Items :
        /\ Inside(hp, P, x)
        /\ \A a \in Anc(hp, x) : Inside(hp, P, a) => ~hp.collapsed[a]}

C5_DisplayedIsVisiblePreorder ==
    \A P \in alloc :
        LET L == DisplayedChildren(Heap, P)
        IN  /\ Range(L) = Shown(Heap, P)
            /\ Len(L) = Cardinality(Shown(Heap, P))
            /\ \A j, k \in 1 .. Len(L) : j < k => DocBefore(Heap, L[j], L[k])

\* A collapsed P with a collapsed child that hides a grandchild: the child
\* is listed, the grandchild is not, and P's own flag does not matter.
C5_Witness ==
    \E P \in alloc :
        /\ collapsed[P]
        /\ \E c \in Range(DisplayedChildren(Heap, P)) :
             /\ collapsed[c]
             /\ head[c] # Nil
             /\ head[c] \notin Range(DisplayedChildren(Heap, P))
        /\ Len(DisplayedChildren(Heap, P)) >= 2

\* C6: for every item strictly inside the zoom root's subtree, visible or
\* hidden, PrevRow() and NextRow() each return either no row or an item
\* strictly inside the zoom root's subtree, for every position of the
\* zoom root.
C6_RowsStayInZoom ==
    \A R \in alloc : \A x \in alloc :
        Inside(Heap, R, x) =>
            /\ NextRow(Heap, R, x) # Nil => Inside(Heap, R, NextRow(Heap, R, x))
            /\ PrevRow(Heap, R, x) # Nil => Inside(Heap, R, PrevRow(Heap, R, x))

\* A zoom root below the top of the tree with a next sibling of its own,
\* and its last row x: the climb from x stops at the zoom root instead of
\* stepping to that sibling, and the first row has no previous row.
C6_Witness ==
    \E R \in alloc : \E x \in alloc :
        /\ parent[R] # Nil /\ next[R] # Nil
        /\ parent[x] = R
        /\ head[x] = Nil /\ next[x] = Nil
        /\ NextRow(Heap, R, x) = Nil
        /\ PrevRow(Heap, R, head[R]) = Nil

\* C7: x.Depth() is the number of parent links from x up to R when R is x
\* or an ancestor of x (0 for R itself) and -1 otherwise: for ancestors of
\* R, for items in sibling subtrees and for detached items.
Links(hp, R, x) ==
    Cardinality({a \in Anc(hp, x) \cup {x} : a = R \/ R \in Anc(hp, a)}) - 1

C7_DepthRelativeToZoom ==
    \A R \in alloc : \A x \in alloc :
        Depth(Heap, R, x) =
            IF x = R \/ Inside(Heap, R, x) THEN Links(Heap, R, x) ELSE -1

\* A zoom root R below the top with a child at depth 1, R's parent out of
\* scope, and a detached item out of scope.
C7_Witness ==
    \E R \in alloc : \E x, z \in alloc :
        /\ parent[R] # Nil
        /\ parent[x] = R /\ Depth(Heap, R, x) = 1
        /\ Depth(Heap, R, R) = 0
        /\ Depth(Heap, R, parent[R]) = -1
        /\ z # R /\ parent[z] = Nil /\ z \notin Anc(Heap, R)
        /\ Depth(Heap, R, z) = -1

\* C8: in every state reachable by any sequence of SetCollapsed, Append,
\* Prepend, MoveAbove, MoveBelow, MoveUp, MoveDown, Demote, Promote, Detach
\* and Load, no item has collapsed = true while having no children.
C8_CollapsedHasChildren ==
    \A x \in Items : collapsed[x] => head[x] # Nil

\* The parentless item above r, or Nil when the parent links from r never
\* end (r lies on a cycle).
RECURSIVE TopLoop(_, _, _)
TopLoop(hp, r, fuel) ==
    IF hp.parent[r] = Nil THEN r
    ELSE IF fuel = 0 THEN Nil
    ELSE TopLoop(hp, hp.parent[r], fuel - 1)

Top == TopLoop(Heap, root, MaxItems)

\* C9: Promote() leaves the whole state unchanged, and does not fail, when
\* the item is the real root or a direct child of the real root, for every
\* position of the zoom root.
C9_PromoteFloorIsRealRoot ==
    [][\A i \in Items :
         (/\ Top # Nil
          /\ (i = Top \/ parent[i] = Top)
          /\ ApiPromote(i))
         => UNCHANGED vars]_vars

\* The items of the tree the zoom root of w lies in.
TreeOf(w) ==
    LET top == TopLoop(w.h, w.root, MaxItems)
    IN  {x \in Items : x = top \/ top \in Anc(w.h, x)}

\* What a workspace looks like from outside: its items in document order,
\* each with its depth, title, status and collapsed flag, and the places of
\* the cursor and of the zoom root.
Shape(w) ==
    LET T == TreeOf(w)
        pos(x) == 1 + Cardinality({y \in T : DocBefore(w.h, y, x)})
        at(k) == CHOOSE x \in T : pos(x) = k
    IN  [k \in 1 .. Cardinality(T) |->
           [depth |-> Cardinality(Anc(w.h, at(k))),
            title |-> w.title[at(k)],
            status |-> w.status[at(k)],
            collapsed |-> w.h.collapsed[at(k)],
            cursor |-> (at(k) = w.cursor),
            zoom |-> (at(k) = w.root)]]

\* Save then Load reconstructs the workspace w.
RoundTrips(w) ==
    LET r == LoadDocument(MarshalWorkspace(w))
    IN  r.ok /\ Shape(r.w) = Shape(w)

\* C2: Save followed by Load of the written document reconstructs a tree
\* with the same shape and the same title, status and collapsed flag on
\* every item, the cursor and the zoom root on the items at the same tree
\* positions, for every workspace state whose cursor and zoom root are
\* attached in the tree.
C2_SaveLoadRoundTrip ==
    (cursor \in TreeOf(Cur) /\ root \in TreeOf(Cur)) => RoundTrips(Cur)

\* C3: in every reachable state and for every position of the zoom root, the
\* document written by Save has the workspace's real root as its single
\* top-level item and contains every item attached beneath the real root;
\* zooming in never causes an item outside the zoom root's subtree to be
\* missing from the saved document.
C3_SaveWritesWholeTree ==
    LET doc == MarshalWorkspace(Cur)
        order == MarshalOrder(Heap, RealRoot(Heap, root))
    IN  /\ {k \in 1 .. Len(doc.items) : doc.items[k].depth = 0} = {1}
        /\ order[1] = Top
        /\ Range(order) = TreeOf(Cur)
        /\ Len(doc.items) = Cardinality(TreeOf(Cur))

\* Zoomed in on a child of the real root while a sibling outside the zoom
\* root's subtree is attached: the sibling is in the written document.
C3_Witness ==
    LET doc == MarshalWorkspace(Cur)
    IN  /\ root # Top /\ parent[root] = Top
        /\ \E x \in Items :
             /\ parent[x] = Top /\ x \notin Subtree(Heap, root)
             /\ x \in Range(MarshalOrder(Heap, RealRoot(Heap, root)))
        /\ Len(doc.items) = MaxApiItems
        /\ \E k \in 1 .. Len(doc.items) : doc.items[k].zoomed = strTrue

PriorInBackup == \E t \in Times : baks[t] = prior

Unmarshalled == pc \in {"run", "failed"} /\ prior.kind = "xml" /\ alloc # {}

\* The version attribute of doc is present and spells the integer 2.
VersionIsTwo(doc) ==
    doc.hasversion /\ doc.version \in {<<"2">>, <<"+", "2">>, <<"0", "2">>}

\* C12: Load of an existing document returns an error whenever the workspace
\* element's version attribute is absent, is not an integer, or is an integer
\* other than 2 (older such as 1, or newer such as 3); it succeeds on the
\* version check only for exactly 2.
C12_VersionMustBeTwo ==
    Unmarshalled =>
        /\ ~VersionIsTwo(prior) => ret = "err"
        /\ (VersionIsTwo(prior) /\ prior.items = PlainItem) => ret = "ok"

\* Load has refused a document whose version is 3.
C12_Witness ==
    /\ Unmarshalled
    /\ prior.hasversion /\ prior.version = <<"3">>
    /\ ret = "err" /\ pc = "failed"

\* No item element of doc carries the selected or the zoomed-in marker.
NoMarkers(doc) ==
    \A k \in 1 .. Len(doc.items) :
        doc.items[k].selected = NoAttr /\ doc.items[k].zoomed = NoAttr

\* C13: after Load of a version-2 document in which no item carries a
\* selected marker and no item carries a zoomed-in marker, both the cursor
\* and the zoom root of the returned workspace reference the real root item.
C13_MarkersDefaultToRealRoot ==
    (Unmarshalled /\ ret = "ok" /\ VersionIsTwo(prior) /\ NoMarkers(prior))
        => (root = Top /\ cursor = Top)

\* C14: whenever Load returns an error for an existing file (unsupported
\* version, malformed status code, malformed document structure), it returns
\* no workspace: the caller never receives a partially reconstructed tree
\* together with the error.
C14_FailedLoadReturnsNothing ==
    (pc = "failed" /\ prior # NoFile) => alloc = {}

\* The five status codes other than NONE.
LegalCodes == {"TODO", "DONE", "CANC", "WAIT", "SCHD"}

\* C15: Load accepts as an item's status attribute only the five codes TODO,
\* DONE, CANC, WAIT and SCHD: an omitted attribute yields status None, and
\* every other attribute value, including the string NONE, makes the load
\* fail.
C15_OnlyFiveStatusCodes ==
    (Unmarshalled /\ VersionIsTwo(prior)) =>
        /\ ret = "ok" <=>
             \A k \in 1 .. Len(prior.items) :
                 prior.items[k].status \in LegalCodes \cup {NoAttr}
        /\ (ret = "ok" /\ prior.items[1].status = NoAttr)
             => status[Home] = StatusNone

\* The sequence s without the item x.
Without(s, x) == SelectSeq(s, LAMBDA y : y # x)

\* Position of t in the sequence s.
IndexOf(s, t) == CHOOSE k \in 1 .. Len(s) : s[k] = t

\* The sequence s with x put immediately before, or after, its member t.
InsertBefore(s, x, t) ==
    SubSeq(s, 1, IndexOf(s, t) - 1) \o <<x>> \o SubSeq(s, IndexOf(s, t), Len(s))

InsertAfter(s, x, t) ==
    SubSeq(s, 1, IndexOf(s, t)) \o <<x>> \o SubSeq(s, IndexOf(s, t) + 1, Len(s))

\* x may be moved next to t: t is attached and x is neither t nor one of
\* its ancestors.
MayMoveTo(x, t) ==
    /\ x \in alloc /\ t \in alloc
    /\ parent[t] # Nil
    /\ x # t /\ x \notin Anc(Heap, t)

\* The list x left, when it is another list than the one of p, is the
\* former list without x.
OldListMinus(h2, x, p) ==
    (parent[x] # Nil /\ parent[x] # p)
        => Children(h2, parent[x]) = Without(Children(Heap, parent[x]), x)

\* C16: for an attached target t and an item x that is neither t nor an
\* ancestor of t: after x.MoveAbove(t), x.parent = t.parent and x is the
\* immediate previous sibling of t; after x.MoveBelow(t), x is the immediate
\* next sibling of t; the relative order of all other children of t's parent
\* is unchanged, and x's former sibling list, if different, is the former
\* list minus x in the same order.
C16_MoveSplicesNextToTarget ==
    \A x, t \in Items : MayMoveTo(x, t) =>
        LET p == parent[t]
            a == MoveAbove(Heap, x, t)
            b == MoveBelow(Heap, x, t)
        IN  /\ a.ok
            /\ a.h.parent[x] = p
            /\ a.h.prev[t] = x /\ a.h.next[x] = t
            /\ Children(a.h, p)
                 = InsertBefore(Without(Children(Heap, p), x), x, t)
            /\ OldListMinus(a.h, x, p)
            /\ b.ok
            /\ b.h.parent[x] = p
            /\ b.h.next[t] = x /\ b.h.prev[x] = t
            /\ Children(b.h, p)
                 = InsertAfter(Without(Children(Heap, p), x), x, t)
            /\ OldListMinus(b.h, x, p)

\* x is the middle child of one list and t is a child of another item with
\* a sibling: MoveAbove takes x out of its list and puts it before t.
C16_Witness ==
    \E x, t \in Items :
        /\ MayMoveTo(x, t)
        /\ parent[x] # Nil /\ parent[x] # parent[t]
        /\ Len(Children(Heap, parent[x])) >= 2
        /\ LET a == MoveAbove(Heap, x, t)
           IN  /\ a.ok
               /\ Children(a.h, parent[t]) = <<x, t>>
               /\ Len(Children(a.h, parent[x])) >= 1
               /\ x \notin Range(Children(a.h, parent[x]))

\* x may be given to p as a new child: x is not a child of p, not p and not
\* an ancestor of p.
MayAdopt(p, x) ==
    /\ p \in alloc /\ x \in alloc
    /\ parent[x] # p
    /\ x # p /\ x \notin Anc(Heap, p)

\* C17: for a parent p and an item x that is not currently a child of p and
\* not p or an ancestor of p: after p.Append(x) the children of p are the
\* former children in order followed by x; after p.Prepend(x) they are x
\* followed by the former children in order; when p had no children, x
\* becomes both head and tail with no prev and no next.
C17_AppendPrependAtEnds ==
    \A p, x \in Items : MayAdopt(p, x) =>
        LET a == ItemAppend(Heap, p, x)
            b == Prepend(Heap, p, x)
        IN  /\ a.ok /\ b.ok
            /\ a.h.parent[x] = p /\ b.h.parent[x] = p
            /\ Children(a.h, p) = Children(Heap, p) \o <<x>>
            /\ Children(b.h, p) = <<x>> \o Children(Heap, p)
            /\ a.h.tail[p] = x /\ b.h.head[p] = x
            /\ head[p] = Nil =>
                 /\ a.h.head[p] = x /\ a.h.tail[p] = x
                 /\ a.h.prev[x] = Nil /\ a.h.next[x] = Nil
                 /\ b.h.head[p] = x /\ b.h.tail[p] = x
                 /\ b.h.prev[x] = Nil /\ b.h.next[x] = Nil

\* p has two children and x is attached elsewhere: Append puts x last and
\* Prepend puts it first; a childless item is there as well.
C17_Witness ==
    \E p, x \in Items :
        /\ MayAdopt(p, x)
        /\ Len(Children(Heap, p)) = 2
        /\ parent[x] # Nil
        /\ Children(ItemAppend(Heap, p, x).h, p) = Children(Heap, p) \o <<x>>
        /\ Children(Prepend(Heap, p, x).h, p) = <<x>> \o Children(Heap, p)
        /\ \E y \in Items :
             /\ head[x] = Nil /\ MayAdopt(x, y)
             /\ ItemAppend(Heap, x, y).h.head[x] = y

\* C18: after x.Detach() on an attached item x, x has no parent, no prev and
\* no next, and the former parent's children are exactly the former children
\* minus x in the same relative order, with head and tail repaired (both
\* absent when x was the only child).
C18_DetachRemovesFromList ==
    \A x \in alloc : parent[x] # Nil =>
        LET p == parent[x]
            d == Detach(Heap, x)
            L == Without(Children(Heap, p), x)
        IN  /\ d.parent[x] = Nil /\ d.prev[x] = Nil /\ d.next[x] = Nil
            /\ Children(d, p) = L
            /\ ListValid(d, p)
            /\ d.head[p] = (IF L = <<>> THEN Nil ELSE L[1])
            /\ d.tail[p] = (IF L = <<>> THEN Nil ELSE L[Len(L)])

\* A last child is detached, and so is an only child.
C18_Witness ==
    /\ \E x \in alloc :
         /\ parent[x] # Nil /\ prev[x] # Nil /\ next[x] = Nil
         /\ Children(Detach(Heap, x), parent[x]) = <<prev[x]>>
         /\ Detach(Heap, x).tail[parent[x]] = prev[x]
    /\ \E x \in alloc :
         /\ parent[x] # Nil /\ prev[x] = Nil /\ next[x] = Nil
         /\ Detach(Heap, x).head[parent[x]] = Nil
         /\ Detach(Heap, x).tail[parent[x]] = Nil

\* Every field of item y is the same in the heaps h1 and h2.
SameItem(h1, h2, y) ==
    /\ h1.parent[y] = h2.parent[y]
    /\ h1.head[y] = h2.head[y] /\ h1.tail[y] = h2.tail[y]
    /\ h1.prev[y] = h2.prev[y] /\ h1.next[y] = h2.next[y]
    /\ h1.collapsed[y] = h2.collapsed[y]

\* C19: Detach on an item that is already detached (no parent, prev or next)
\* changes nothing anywhere in the state, so Detach;Detach equals Detach; and
\* Detach on any item leaves that item's own head, tail and all links among
\* its descendants unchanged.
C19_DetachIdempotentKeepsChildren ==
    \A x \in alloc :
        LET d == Detach(Heap, x)
        IN  /\ (parent[x] = Nil /\ prev[x] = Nil /\ next[x] = Nil)
                 => d = Heap
            /\ Detach(d, x) = d
            /\ d.head[x] = head[x] /\ d.tail[x] = tail[x]
            /\ \A y \in Subtree(Heap, x) \ {x} : SameItem(Heap, d, y)

\* An attached item with children and a grandchild is detached and keeps
\* them; a detached item is detached again.
C19_Witness ==
    /\ \E x \in alloc :
         /\ parent[x] # Nil /\ head[x] # Nil /\ head[head[x]] # Nil
         /\ Detach(Heap, x) # Heap
         /\ Children(Detach(Heap, x), x) = Children(Heap, x)
    /\ \E x \in alloc :
         /\ parent[x] = Nil /\ head[x] # Nil
         /\ Detach(Heap, x) = Heap

\* The sequence s with the members at positions j and k exchanged.
Swap(s, j, k) ==
    [n \in 1 .. Len(s) |-> IF n = j THEN s[k] ELSE IF n = k THEN s[j] ELSE s[n]]

\* C20: x.MoveUp() on an item with a previous sibling exchanges the positions
\* of x and that sibling and leaves every other sibling's position unchanged;
\* x.MoveUp() on an item with no previous sibling leaves the whole state
\* unchanged; symmetrically for MoveDown and the next sibling.  (The calls
\* are made while the program runs, not after a panic has ended it.)
C20_MoveUpDownSwapNeighbours ==
    ~panicked => \A x \in alloc :
        LET u == MoveUp(Heap, x)
            d == MoveDown(Heap, x)
            p == parent[x]
            L == Children(Heap, p)
        IN  /\ u.ok /\ d.ok
            /\ prev[x] = Nil => u.h = Heap
            /\ next[x] = Nil => d.h = Heap
            /\ prev[x] # Nil =>
                 /\ Children(u.h, p) = Swap(L, IndexOf(L, x) - 1, IndexOf(L, x))
                 /\ u.h.parent[x] = p
            /\ next[x] # Nil =>
                 /\ Children(d.h, p) = Swap(L, IndexOf(L, x), IndexOf(L, x) + 1)
                 /\ d.h.parent[x] = p

\* The last of three children moves up into the middle, the first moves
\* down into the middle, and at the ends nothing moves.
C20_Witness ==
    \E a, b, c \in alloc :
        /\ Children(Heap, Home) = <<a, b, c>>
        /\ Children(MoveUp(Heap, c).h, Home) = <<a, c, b>>
        /\ Children(MoveDown(Heap, a).h, Home) = <<b, a, c>>
        /\ MoveUp(Heap, a).h = Heap
        /\ MoveDown(Heap, c).h = Heap

\* C21: x.Demote() on an item with previous sibling s makes x the last child
\* of s (after any existing children of s), removes x from its former sibling
\* list whose remaining order is unchanged, and leaves s.collapsed = false
\* whatever it was before; on an item with no previous sibling Demote leaves
\* the whole state unchanged.  (The call is made while the program runs.)
C21_DemoteUnderPrevSibling ==
    ~panicked => \A x \in alloc :
        LET s == prev[x]
            p == parent[x]
            d == Demote(Heap, x)
        IN  /\ d.ok
            /\ s = Nil => d.h = Heap
            /\ s # Nil =>
                 /\ d.h.parent[x] = s
                 /\ Children(d.h, s) = Children(Heap, s) \o <<x>>
                 /\ d.h.tail[s] = x /\ d.h.next[x] = Nil
                 /\ Children(d.h, p) = Without(Children(Heap, p), x)
                 /\ ~d.h.collapsed[s]

\* x has a collapsed previous sibling that has a child: Demote puts x after
\* that child and opens the sibling; the first child of the list cannot be
\* demoted.
C21_Witness ==
    \E x \in alloc :
        /\ ~panicked
        /\ prev[x] # Nil /\ collapsed[prev[x]] /\ head[prev[x]] # Nil
        /\ Children(Demote(Heap, x).h, prev[x]) = <<head[prev[x]], x>>
        /\ ~Demote(Heap, x).h.collapsed[prev[x]]
        /\ Demote(Heap, prev[x]).h = Heap

\* x is attached in the tree of the item the workspace was created with.
InTree(x) == x = Home \/ Home \in Anc(Heap, x)

\* What C22 says of x.Promote() with zoom root R, x a child of P: x is the
\* immediate next sibling of P under P's parent, P's remaining children keep
\* their order, and x keeps its children.
PromotedBelowParent(R, x) ==
    LET P == parent[x]
        G == parent[P]
        r == Promote(Heap, R, x)
    IN  /\ r.ok
        /\ r.h.parent[x] = G
        /\ r.h.next[P] = x /\ r.h.prev[x] = P
        /\ G # Nil => Children(r.h, G) = InsertAfter(Children(Heap, G), x, P)
        /\ Children(r.h, P) = Without(Children(Heap, P), x)
        /\ Children(r.h, x) = Children(Heap, x)
        /\ r.h.head[x] = head[x] /\ r.h.tail[x] = tail[x]

DemotePromote(R, x) == Promote(Demote(Heap, x).h, R, x)

\* C23: for an item x with a previous sibling s, both strictly inside the
\* zoom scope, Demote followed by Promote on x restores every parent, head,
\* tail, prev and next link of the tree to its value before the Demote; the
\* only field that can differ from the original state is s.collapsed, which
\* is false afterwards even if it was true before, so the pair is not the
\* identity when s was collapsed.
C23_DemotePromoteRestoresLinks ==
    ~panicked => \A R, x \in alloc :
        (prev[x] # Nil /\ Inside(Heap, R, x) /\ Inside(Heap, R, prev[x])) =>
            LET s == prev[x]
                r == DemotePromote(R, x)
            IN  /\ Demote(Heap, x).ok /\ r.ok
                /\ Demote(Heap, x).h.parent[x] = s
                /\ r.h.parent = parent
                /\ r.h.head = head /\ r.h.tail = tail
                /\ r.h.prev = prev /\ r.h.next = next
                /\ r.h.collapsed = [collapsed EXCEPT ![s] = FALSE]
                /\ collapsed[s] => r.h # Heap

\* x follows a collapsed sibling that has a child, under the zoom root:
\* Demote and Promote give back every link and leave the sibling open.
C23_Witness ==
    \E x \in alloc :
        /\ ~panicked
        /\ prev[x] # Nil /\ parent[x] = root
        /\ collapsed[prev[x]] /\ head[prev[x]] # Nil
        /\ Demote(Heap, x).h.tail[prev[x]] = x
        /\ DemotePromote(root, x).h.next[prev[x]] = x
        /\ DemotePromote(root, x).h.tail[prev[x]] = tail[prev[x]]
        /\ DemotePromote(root, x).h # Heap

\* C24: ZoomOut with a zoom root R that has a parent sets the zoom root to
\* R.parent, sets the cursor to R if R is collapsed and leaves the cursor
\* unchanged otherwise, and changes no tree link or collapsed flag; ZoomOut
\* when the zoom root is the real root changes nothing.  The controller's
\* zoomOut command produces the same zoom root and cursor as
\* Workspace.ZoomOut.
C24_ZoomOutToParent ==
    [][/\ ApiZoomOut =>
            /\ parent[root] # Nil =>
                 /\ root' = parent[root]
                 /\ cursor' = IF collapsed[root] THEN root ELSE cursor
            /\ parent[root] = Nil => UNCHANGED vars
            /\ UNCHANGED <<alloc, linkVars, panicked, attrVars>>
       /\ OutlineZoomOut =>
            /\ root' = ZoomOut(Heap, root, cursor).root
            /\ cursor' = ZoomOut(Heap, root, cursor).cursor]_vars

\* The zoom root is a collapsed item below the real root and the cursor is
\* inside it: zooming out puts the cursor on the old zoom root.
C24_Witness ==
    /\ ~panicked
    /\ parent[root] # Nil /\ collapsed[root]
    /\ cursor # Nil /\ Inside(Heap, root, cursor)
    /\ ZoomOut(Heap, root, cursor).root = parent[root]
    /\ ZoomOut(Heap, root, cursor).cursor = root

\* C25: after x.SetCollapsed(v, recursive), the collapsed flag of x, and when
\* recursive is true of every descendant of x, equals (v and the item has at
\* least one child); the collapsed flag of every other item (all descendants
\* when recursive is false, and everything outside x's subtree) and all tree
\* links are unchanged.  (The call is made while the program runs.)
C25_SetCollapsedFrame ==
    ~panicked => \A x \in alloc : \A v, rec \in BOOLEAN :
        LET s == SetCollapsed(Heap, x, v, rec)
        IN  /\ s.ok
            /\ \A y \in Items :
                 s.h.collapsed[y] =
                     IF y = x \/ (rec /\ Inside(Heap, x, y))
                       THEN (v /\ head[y] # Nil)
                       ELSE collapsed[y]
            /\ s.h.parent = parent
            /\ s.h.head = head /\ s.h.tail = tail
            /\ s.h.prev = prev /\ s.h.next = next

\* x has a collapsed child c that has a child of its own: unfolding x alone
\* leaves c collapsed, unfolding recursively opens c, and folding recursively
\* leaves the childless grandchild open; an item beside x keeps its flag.
C25_Witness ==
    \E x, c \in alloc :
        /\ ~panicked
        /\ parent[x] # Nil /\ parent[c] = x
        /\ collapsed[c] /\ head[c] # Nil /\ head[head[c]] = Nil
        /\ collapsed[parent[x]]
        /\ SetCollapsed(Heap, x, FALSE, FALSE).h.collapsed[c]
        /\ ~SetCollapsed(Heap, x, FALSE, TRUE).h.collapsed[c]
        /\ SetCollapsed(Heap, x, TRUE, TRUE).h.collapsed[x]
        /\ ~SetCollapsed(Heap, x, TRUE, TRUE).h.collapsed[head[c]]
        /\ SetCollapsed(Heap, x, FALSE, TRUE).h.collapsed[parent[x]]

\* Number of children in the list L whose status is in the set S.
CountIn(L, S) == Cardinality({k \in 1 .. Len(L) : status[L[k]] \in S})

\* C26: x.ToDoStats() returns (completed, total) where completed is the
\* number of direct children of x whose status is Done or Canceled and total
\* is the number of direct children whose status is not None; statuses of x
\* itself and of deeper descendants never affect the result, and
\* 0 <= completed <= total <= number of children.
C26_ToDoStatsCountsChildren ==
    ~panicked => \A x \in alloc :
        LET L == Children(Heap, x)
            r == ToDoStats(Heap, status, x)
        IN  /\ r.completed = CountIn(L, {StatusDone, StatusCancelled})
            /\ r.total = CountIn(L, Statuses \ {StatusNone})
            /\ 0 <= r.completed /\ r.completed <= r.total
            /\ r.total <= Len(L)
            /\ \A y \in alloc \ Range(L) : \A st \in Statuses :
                 ToDoStats(Heap, [status EXCEPT ![y] = st], x) = r

\* x itself has a status, its only child is cancelled and its grandchild is
\* done: one child is completed of one that counts.
C26_Witness ==
    \E x, a \in alloc :
        /\ ~panicked
        /\ status[x] = StatusTodo
        /\ Children(Heap, x) = <<a>>
        /\ status[a] = StatusCancelled
        /\ head[a] # Nil /\ status[head[a]] = StatusDone
        /\ ToDoStats(Heap, status, x) = [completed |-> 1, total |-> 1]
        /\ ToDoStats(Heap, status, a) = [completed |-> 1, total |-> 1]
        /\ ToDoStats(Heap, status, head[a]) = [completed |-> 0, total |-> 0]

\* The codes Status.String() produces.
Codes == {StatusString(s) : s \in Statuses}

\* Strings given to ParseStatus: the codes, and strings that are none of
\* them (empty, other case, shorter, longer, padded, another word).
CodeInputs ==
    Codes \cup {"", "todo", "Done", "TOD", "TODOS", " TODO", "WAIT ", "OPEN",
                "CANCELED", "0", "NONE\n"}

\* C27: for every one of the six Status values s, ParseStatus(s.String())
\* returns s without error; the six codes are pairwise distinct
\* four-character strings; and ParseStatus returns an error for every string
\* that is not one of the codes.
C27_StatusCodesRoundTrip ==
    /\ \A x \in alloc :
         ParseStatus(StatusString(status[x])) = [val |-> status[x], err |-> FALSE]
    /\ \A s \in Statuses :
         /\ ParseStatus(StatusString(s)) = [val |-> s, err |-> FALSE]
         /\ Len(StatusString(s)) = 4
         /\ \A t \in Statuses : s # t => StatusString(s) # StatusString(t)
    /\ Cardinality(Codes) = 6
    /\ \A str \in CodeInputs : str \notin Codes => ParseStatus(str).err

\* Three items carry the statuses Scheduled, Cancelled and None: each code
\* parses back to the status it was written for, and the lower-case todo is
\* refused.
C27_Witness ==
    \E x, y, z \in alloc :
        /\ status[x] = StatusScheduled /\ status[y] = StatusCancelled
        /\ status[z] = StatusNone
        /\ ParseStatus(StatusString(status[x])).val = StatusScheduled
        /\ ParseStatus(StatusString(status[y])).val = StatusCancelled
        /\ ParseStatus(StatusString(status[z])).val = StatusNone
        /\ ParseStatus("todo").err

\* Positions of the item elements of doc that carry the attribute attr.
Marked(doc, attr) == {k \in 1 .. Len(doc.items) : doc.items[k][attr] # NoAttr}

\* C28: in every document written by Save, exactly one item element carries
\* the zoomed-in marker and it is the current zoom root; at most one item
\* element carries the selected marker and it is the current cursor; the
\* selected marker is present whenever the cursor is attached in the tree; a
\* status attribute is present exactly on items whose status is not None and
\* a collapsed attribute exactly on collapsed items.  The element at position
\* k of the document is the element of the k-th item MarshalXML encodes.
C28_MarkersInSavedDocument ==
    ~panicked =>
        LET doc == MarshalWorkspace(Cur)
            order == MarshalOrder(Heap, RealRoot(Heap, root))
            at(x) == {k \in 1 .. Len(order) : order[k] = x}
        IN  /\ Len(doc.items) = Len(order)
            /\ Cardinality(Marked(doc, "zoomed")) = 1
            /\ Marked(doc, "zoomed") = at(root)
            /\ Cardinality(Marked(doc, "selected")) <= 1
            /\ Marked(doc, "selected") = at(cursor)
            /\ cursor \in TreeOf(Cur) => Marked(doc, "selected") # {}
            /\ Marked(doc, "status")
                 = {k \in 1 .. Len(order) : status[order[k]] # StatusNone}
            /\ \A k \in Marked(doc, "status") :
                 doc.items[k].status = StatusString(status[order[k]])
            /\ Marked(doc, "collapsed")
                 = {k \in 1 .. Len(order) : collapsed[order[k]]}

\* The zoom root is a collapsed child of the real root and the cursor is its
\* child, which has a status: the second element carries the zoomed-in and
\* the collapsed attribute, the third the selected and the status attribute,
\* and the first none of them.
C28_Witness ==
    LET doc == MarshalWorkspace(Cur)
    IN  /\ ~panicked
        /\ parent[root] = Home /\ collapsed[root]
        /\ cursor # Nil /\ parent[cursor] = root
        /\ status[cursor] = StatusDone
        /\ Len(doc.items) = 3
        /\ Marked(doc, "zoomed") = {2} /\ Marked(doc, "collapsed") = {2}
        /\ Marked(doc, "selected") = {3} /\ Marked(doc, "status") = {3}

\* LoadWorkspace has found no file at the canonical path and has built the
\* bootstrap workspace; its call of Save is under way or has returned.
Bootstrapped == prior = NoFile /\ pc \in {"marshal", "write", "run"}

\* C29: Load on a directory with no workspace file returns a workspace whose
\* real root, which is also the zoom root, is titled "Home" and has exactly
\* one child with empty title, status None and no children, and that child is
\* the cursor; when Load returns successfully the canonical file exists and
\* holds that document, so a second Load reconstructs the same state; if the
\* bootstrap save fails, Load reports the error.
C29_BootstrapOnFirstRun ==
    Bootstrapped =>
        /\ ~panicked
        /\ root = Home /\ RealRoot(Heap, root) = Home
        /\ title[Home] = HomeTitle
        /\ cursor # Nil /\ Children(Heap, Home) = <<cursor>>
        /\ alloc = {Home, cursor}
        /\ title[cursor] = EmptyTitle /\ status[cursor] = StatusNone
        /\ head[cursor] = Nil /\ tail[cursor] = Nil
        /\ pc = "run" =>
             /\ ret \in {"ok", "err"}
             /\ ret = "ok" <=> canon = MarshalWorkspace(Cur)
             /\ ret = "ok" =>
                  /\ LoadDocument(canon).ok
                  /\ Shape(LoadDocument(canon).w) = Shape(Cur)
                  /\ LoadDocument(canon).w.title[Home] = HomeTitle

\* Load has returned without error from an empty directory: the file holds
\* the Home element and, nested in it, the selected empty item.
C29_Witness ==
    /\ Bootstrapped /\ pc = "run" /\ ret = "ok"
    /\ canon.kind = "xml" /\ Len(canon.items) = 2
    /\ canon.items[1].zoomed = strTrue /\ canon.items[1].depth = 0
    /\ canon.items[2].selected = strTrue /\ canon.items[2].depth = 1
    /\ cursor = tail[Home]

\* C30: for every item attached in the tree and every choice of zoom root
\* inside the tree, RealRoot() returns the same item: the unique parentless
\* ancestor-or-self of the zoom root, which is the item the workspace was
\* created with; changing the zoom root with SetRoot never changes the
\* result.  (RealRoot reads only i.workspace.root, so the receiver is no
\* argument of the operator.)
C30_RealRootIgnoresZoom ==
    /\ [](~panicked => \A R \in alloc : InTree(R) =>
            /\ RealRoot(Heap, R) = Home
            /\ {a \in Anc(Heap, R) \cup {R} : parent[a] = Nil} = {Home})
    /\ [][\A i \in alloc :
            (~panicked /\ InTree(root) /\ InTree(i) /\ ApiSetRoot(i))
                => RealRoot(Heap', root') = RealRoot(Heap, root)]_vars

\* The zoom root is a grandchild of the item the workspace was created
\* with, and RealRoot returns that item.
C30_Witness ==
    /\ ~panicked
    /\ root # Home /\ parent[root] # Nil /\ parent[root] # Home
    /\ parent[parent[root]] = Home
    /\ RealRoot(Heap, root) = Home
    /\ RealRoot(Heap, parent[root]) = Home

\* C31: p.Append(x) where x is already a child of p, also when x is the last
\* or the only child of p, completes without failure and leaves p's children
\* equal to the former children minus x followed by x; p.Prepend(x) where x
\* is already the first child of p completes and leaves the order unchanged.
C31_ReappendOwnChild ==
    ~panicked =>
        \A p, x \in alloc : (InTree(p) /\ parent[x] = p) =>
            LET a == ItemAppend(Heap, p, x)
                b == Prepend(Heap, p, x)
            IN  /\ a.ok
                /\ Children(a.h, p) = Without(Children(Heap, p), x) \o <<x>>
                /\ head[p] = x =>
                     (b.ok /\ Children(b.h, p) = Children(Heap, p))

\* C32: after any sequence of MoveAbove, MoveBelow, Append, Prepend, Demote
\* and Promote calls whose targets are attached, no item is its own ancestor
\* (the parent relation is acyclic), also when the target of a move is a
\* descendant of the moved item or the item itself.
C32_ParentsAcyclic ==
    ~panicked => \A x \in Items : x \notin Anc(Heap, x)

\* C33: starting with the cursor among Root().DisplayedChildren(), after any
\* sequence of controller commands (cursorUp, cursorDown, cursorToParent,
\* cursorToTail, moveRowUp, moveRowDown, demoteRow, promoteRow,
\* toggleItemFolded, addSibling, addChild, deleteItem, zoomIn, zoomOut) the
\* cursor is still one of Root().DisplayedChildren(): it is attached,
\* strictly inside the zoom root's subtree, under no collapsed item below
\* the zoom root, never the zoom root itself, and the zoom root has at least
\* one child.  No command ends in a panic.
C33_CursorStaysDisplayed ==
    /\ ~panicked
    /\ cursor \in Range(DisplayedChildren(Heap, root))
    /\ cursor \in alloc /\ cursor # root
    /\ parent[cursor] # Nil
    /\ root \in Anc(Heap, cursor)
    /\ \A a \in Anc(Heap, cursor) :
         (root \in Anc(Heap, a)) => ~collapsed[a]
    /\ head[root] # Nil

\* The view is zoomed into an item below the real root, and the cursor is on
\* a grandchild of the zoom root, two levels inside it.
C33_Witness ==
    /\ root # Home /\ cursor # Nil
    /\ parent[cursor] # Nil /\ parent[cursor] # root
    /\ parent[parent[cursor]] = root
    /\ cursor \in Range(DisplayedChildren(Heap, root))

\* C34: Promote never moves an item out of the zoom scope, for every
\* position R of the zoom root: called on R or on a direct child of R it
\* leaves the state unchanged, and an item strictly inside R's subtree is
\* still strictly inside it after Promote.
C34_PromoteStaysInZoom ==
    ~panicked => \A R, x \in alloc :
        LET r == Promote(Heap, R, x)
        IN  /\ (x = R \/ parent[x] = R) => (r.ok /\ r.h = Heap)
            /\ R \in Anc(Heap, x) =>
                 /\ r.ok
                 /\ R \in Anc(r.h, x)
                 /\ \A y \in alloc :
                      (R \in Anc(Heap, y)) <=> (R \in Anc(r.h, y))

\* The view is zoomed into R below the real root; x is a grandchild of R and
\* Promote makes it a child of R, and Promote of that child of R changes
\* nothing although R has a parent to move it under.
C34_Witness ==
    \E R, x \in alloc :
        /\ ~panicked
        /\ parent[R] = Home
        /\ parent[x] # Nil /\ parent[parent[x]] = R
        /\ Promote(Heap, R, x).h.parent[x] = R
        /\ Promote(Heap, R, parent[x]).h = Heap
        /\ Promote(Promote(Heap, R, x).h, R, x).h = Promote(Heap, R, x).h

\* The places an item y occupies in the children lists of hp.
Places(hp, y) ==
    UNION {{<<p, k>> : k \in {j \in 1 .. Len(Children(hp, p)) :
                                 Children(hp, p)[j] = y}} : p \in Items}

\* The call with result r returned, the items reachable from the real root
\* are the ones reachable before it, and each of them but the real root
\* occurs once in one children list.
KeepsItems(r) ==
    /\ r.ok
    /\ Subtree(r.h, Home) = Subtree(Heap, Home)
    /\ \A y \in Subtree(r.h, Home) \ {Home} : Cardinality(Places(r.h, y)) = 1

\* C35: MoveUp, MoveDown, Demote and Promote never change the set of items
\* reachable from the real root: no item is lost or duplicated, and after
\* each of them every reachable item occurs exactly once in exactly one
\* children list.  The calls are made on the items of the tree, with the
\* zoom root on an item of the tree.
C35_MovesKeepReachableItems ==
    (~panicked /\ InTree(root)) =>
        \A x \in alloc : InTree(x) =>
            /\ KeepsItems(MoveUp(Heap, x))
            /\ KeepsItems(MoveDown(Heap, x))
            /\ KeepsItems(Demote(Heap, x))
            /\ KeepsItems(Promote(Heap, root, x))

\* C36: every Save over an existing document moves it to a backup file whose
\* name differs from the name of every backup file already on disk, so no
\* Save overwrites an earlier backup and every document a successful Save
\* wrote and a later Save superseded is still on disk; also for two saves
\* within the same clock second.
C36_BackupNamesFresh ==
    [][(pc = "rename" /\ pc' = "marshal" /\ canon.kind = "xml") =>
          \A t \in Times : baks[t].kind = "xml" =>
              (t # now /\ baks'[t] = baks[t])]_vars

\* C37: Demote on an item x with a previous sibling leaves the depth-first
\* pre-order sequence of all items under the real root unchanged; only the
\* depth of x and of its descendants changes, each increasing by exactly
\* one.
C37_DemoteKeepsDocumentOrder ==
    ~panicked => \A x \in alloc : prev[x] # Nil =>
        LET d == Demote(Heap, x)
        IN  /\ d.ok
            /\ MarshalOrder(d.h, Home) = MarshalOrder(Heap, Home)
            /\ \A y \in alloc :
                 Depth(d.h, Home, y) =
                     IF InTree(x) /\ y \in Subtree(Heap, x)
                       THEN Depth(Heap, Home, y) + 1
                       ELSE Depth(Heap, Home, y)

\* x stands in the tree behind a sibling that has a child of its own, with
\* a further item next to or under x: Demote puts x behind that child, where
\* it already is in document order, one level deeper.
C37_Witness ==
    \E x \in alloc :
        /\ ~panicked /\ InTree(x)
        /\ prev[x] # Nil /\ head[prev[x]] # Nil
        /\ Len(MarshalOrder(Heap, Home)) = MaxTreeItems
        /\ MarshalOrder(Demote(Heap, x).h, Home) = MarshalOrder(Heap, Home)
        /\ Depth(Demote(Heap, x).h, Home, x) = Depth(Heap, Home, x) + 1
        /\ Demote(Heap, x).h.prev[x] = head[prev[x]]

\* The cursor is the only child of the zoom root.
OnlyRow == parent[cursor] = root /\ prev[cursor] = Nil /\ next[cursor] = Nil

\* deleteItem(recursive) refuses.
Refused(recursive) == OnlyRow \/ (head[cursor] # Nil /\ ~recursive)

\* C38: the controller's deleteItem leaves tree, cursor and zoom root
\* unchanged in both refusal cases: when the cursor is the only child of the
\* zoom root (either mode), and when the cursor has children and the
\* deletion is not recursive.  When it does delete, the cursor item is
\* detached together with its whole subtree and the cursor moves to the
\* former next sibling, else the former previous sibling, else the former
\* parent.
C38_DeleteItemRefusesOrDetaches ==
    /\ [](\A r \in BOOLEAN :
            (OutlineRuns /\ Refused(r))
                => ~ENABLED (DeleteItem(r) /\ vars' # vars))
    /\ [][\A r \in BOOLEAN : (DeleteItem(r) /\ vars' # vars) =>
            /\ ~Refused(r)
            /\ ~panicked'
            /\ Heap' = Detach(Heap, cursor)
            /\ parent'[cursor] = Nil /\ prev'[cursor] = Nil
            /\ next'[cursor] = Nil
            /\ Subtree(Heap', cursor) = Subtree(Heap, cursor)
            /\ Subtree(Heap', Home) = Subtree(Heap, Home) \ Subtree(Heap, cursor)
            /\ Children(Heap', parent[cursor])
                 = Without(Children(Heap, parent[cursor]), cursor)
            /\ cursor' = IF next[cursor] # Nil THEN next[cursor]
                         ELSE IF prev[cursor] # Nil THEN prev[cursor]
                         ELSE parent[cursor]
            /\ UNCHANGED <<alloc, root, attrVars>>]_vars

\* An item has been deleted together with its child, and the cursor is now
\* on the only row left under the zoom root, where deleteItem refuses.
C38_Witness ==
    /\ OutlineRuns /\ OnlyRow
    /\ \E x \in alloc \ {Home} :
         /\ parent[x] = Nil /\ head[x] # Nil
         /\ x \notin Subtree(Heap, Home)

\* The zoom root and the cursor after zoomIn immediately followed by
\* zoomOut.
ZoomInOut ==
    LET zi == ZoomInTo(Heap, root, cursor)
    IN  ZoomOut(Heap, zi.root, zi.cursor)

\* The steps of the commands zoomIn and zoomOut are the ones ZoomInTo and
\* ZoomOut compute, and change nothing but the zoom root and the cursor.
ZoomStepsAsComputed ==
    /\ [][ZoomIn =>
            /\ root' = ZoomInTo(Heap, root, cursor).root
            /\ cursor' = ZoomInTo(Heap, root, cursor).cursor
            /\ UNCHANGED <<alloc, linkVars, attrVars, panicked>>]_vars
    /\ [][OutlineZoomOut =>
            /\ root' = ZoomOut(Heap, root, cursor).root
            /\ cursor' = ZoomOut(Heap, root, cursor).cursor
            /\ UNCHANGED <<alloc, linkVars, attrVars, panicked>>]_vars

\* zoomIn is a no-op when the cursor has no children; otherwise the zoom
\* root becomes the former cursor and the cursor becomes its first child.
ZoomInAsStated ==
    /\ [](OutlineRuns /\ head[cursor] = Nil
            => ~ENABLED (ZoomIn /\ vars' # vars))
    /\ [](OutlineRuns /\ head[cursor] # Nil
            => ZoomInTo(Heap, root, cursor)
                 = [root |-> cursor, cursor |-> head[cursor]])

\* C39 as stated: zoomIn is a no-op when the cursor has no children;
\* otherwise the zoom root becomes the former cursor and the cursor becomes
\* its first child.  A zoomIn immediately followed by zoomOut restores the
\* original zoom root, with the cursor on the zoomed item if that item is
\* collapsed and on its first child otherwise.
C39_ZoomInOutAsStated ==
    /\ ZoomStepsAsComputed
    /\ ZoomInAsStated
    /\ [](OutlineRuns /\ head[cursor] # Nil
            => /\ ZoomInOut.root = root
               /\ ZoomInOut.cursor =
                    IF collapsed[cursor] THEN cursor ELSE head[cursor])

\* C39, amended: zoomIn is a no-op when the cursor has no children;
\* otherwise the zoom root becomes the former cursor and the cursor becomes
\* its first child.  A zoomIn immediately followed by zoomOut leaves the
\* zoom root on the parent of the zoomed item, which is the original zoom
\* root when the cursor was on a direct child of it, with the cursor on the
\* zoomed item if that item is collapsed and on its first child otherwise.
C39_ZoomInOutOneLevel ==
    /\ ZoomStepsAsComputed
    /\ ZoomInAsStated
    /\ [](OutlineRuns /\ head[cursor] # Nil
            => /\ ZoomInOut.root = parent[cursor]
               /\ parent[cursor] = root => ZoomInOut.root = root
               /\ ZoomInOut.cursor =
                    IF collapsed[cursor] THEN cursor ELSE head[cursor])

\* The cursor is on a collapsed item with a child, two levels below the zoom
\* root: zoomIn goes into that item, and zoomOut after it ends one level
\* below the original zoom root with the cursor on that item.
C39_Witness ==
    /\ OutlineRuns
    /\ head[cursor] # Nil /\ collapsed[cursor]
    /\ parent[cursor] # root /\ parent[parent[cursor]] = root
    /\ ZoomInTo(Heap, root, cursor).root = cursor
    /\ ZoomInOut = [root |-> parent[cursor], cursor |-> cursor]

\* C40: when deleteEmptyRow removes the cursor row (text position 0 and a
\* previous row exists), every child of the removed row is re-attached as a
\* child of the previous row, in the original order, before the row is
\* detached, so no descendant of the removed row becomes unreachable from
\* the real root, and the cursor moves to the previous row.
C40_JoinKeepsChildren ==
    (OutlineRuns /\ PrevRow(Heap, root, cursor) # Nil) =>
        \A v \in RowInputs :
            LET q == PrevRow(Heap, root, cursor)
                r == DeleteEmptyRow(Cur, v)
            IN  /\ r.ok
                /\ r.w.cursor = q
                /\ r.w.h.parent[cursor] = Nil
                /\ Children(r.w.h, q) =
                     Without(Children(Heap, q), cursor)
                         \o Children(Heap, cursor)
                /\ Subtree(r.w.h, Home) = Subtree(Heap, Home) \ {cursor}

====
